---- MODULE Spec2Model ----
(***************************************************************************)
(* Doc2LMS: the QTI 1.2 conversion pipeline of a Google Doc.               *)
(*   parseQuestions (QuestionParsing.gs) -> parseAnswerKey                 *)
(*   (AnswerKeyParsing.gs) -> combineQuestionsAndAnswers (Code.gs) ->      *)
(*   QTIExport_createQTIPackage (QTIExport.gs), driven by startConversion. *)
(* A text is a sequence of one-character strings, so that the regular      *)
(* expressions of the source are computed character by character.          *)
(***************************************************************************)
EXTENDS Naturals, Sequences, FiniteSets, TLC

(***************************************************************************)
(* Characters and the character classes of JavaScript regular expressions  *)
(***************************************************************************)
LowerLetters == <<"a","b","c","d","e","f","g","h","i","j","k","l","m",
                  "n","o","p","q","r","s","t","u","v","w","x","y","z">>
UpperLetters == <<"A","B","C","D","E","F","G","H","I","J","K","L","M",
                  "N","O","P","Q","R","S","T","U","V","W","X","Y","Z">>
DigitChars == <<"0","1","2","3","4","5","6","7","8","9">>
\* the values Utilities.getUuid().replace(/-/g, '') returns, in the order of the
\* calls: an id is taken as one character of the texts, a word character
UuidChars == <<"u1", "u2", "u3", "u4", "u5", "u6", "u7", "u8", "u9", "u10", "u11", "u12">>

Range(s) == { s[k] : k \in 1..Len(s) }

IsLower(c) == c \in Range(LowerLetters)
IsUpper(c) == c \in Range(UpperLetters)
\* [A-Za-z]
IsLetter(c) == IsLower(c) \/ IsUpper(c)
\* \d
IsDigit(c) == c \in Range(DigitChars)
\* \s (the texts of the model hold no other white space than the blank)
IsSpace(c) == c = " "
\* \w
IsWordChar(c) == IsLetter(c) \/ IsDigit(c) \/ c = "_" \/ c \in Range(UuidChars)

IndexIn(s, c) == CHOOSE k \in 1..Len(s) : s[k] = c
\* String.prototype.toUpperCase, one character
UpperChar(c) == IF IsLower(c) THEN UpperLetters[IndexIn(LowerLetters, c)] ELSE c
\* String.prototype.toUpperCase
ToUpperCase(s) == [k \in 1..Len(s) |-> UpperChar(s[k])]
\* the value of one decimal digit
DigitValue(c) == IndexIn(DigitChars, c) - 1

\* s.substring(from - 1): the characters of s from position from on
From(s, from) == IF from > Len(s) THEN <<>> ELSE SubSeq(s, from, Len(s))

\* the first position >= from of s that holds no white space (Len(s)+1 if none)
RECURSIVE SkipSpaces(_, _)
SkipSpaces(s, from) ==
  IF from <= Len(s) /\ IsSpace(s[from]) THEN SkipSpaces(s, from + 1) ELSE from

\* the first position >= from of s that holds no digit
RECURSIVE SkipDigits(_, _)
SkipDigits(s, from) ==
  IF from <= Len(s) /\ IsDigit(s[from]) THEN SkipDigits(s, from + 1) ELSE from

\* the first position >= from of s that holds no letter
RECURSIVE SkipLetters(_, _)
SkipLetters(s, from) ==
  IF from <= Len(s) /\ IsLetter(s[from]) THEN SkipLetters(s, from + 1) ELSE from

\* the last position <= to of s that holds no white space (0 if none)
RECURSIVE SkipSpacesBack(_, _)
SkipSpacesBack(s, to) ==
  IF to >= 1 /\ IsSpace(s[to]) THEN SkipSpacesBack(s, to - 1) ELSE to

\* String.prototype.trim
Trim(s) ==
  LET a == SkipSpaces(s, 1)
      b == SkipSpacesBack(s, Len(s))
  IN  IF a > b THEN <<>> ELSE SubSeq(s, a, b)

\* parseInt(digits, 10) of a run of decimal digits
RECURSIVE ParseInt(_)
ParseInt(ds) ==
  IF ds = <<>> THEN 0
  ELSE 10 * ParseInt(SubSeq(ds, 1, Len(ds) - 1)) + DigitValue(ds[Len(ds)])

\* w occurs in s at position at
OccursAt(s, w, at) ==
  /\ at >= 1
  /\ at + Len(w) - 1 <= Len(s)
  /\ \A k \in 1..Len(w) : s[at + k - 1] = w[k]

\* String.prototype.includes
Includes(s, w) == \E at \in 1..(Len(s) + 1) : OccursAt(s, w, at)

\* \b between positions at-1 and at of s
WordBoundary(s, at) ==
  LET before == at - 1 >= 1 /\ at - 1 <= Len(s) /\ IsWordChar(s[at - 1])
      after  == at >= 1 /\ at <= Len(s) /\ IsWordChar(s[at])
  IN  before # after

\* \bw\b matches in s at position at
WordAt(s, w, at) ==
  OccursAt(s, w, at) /\ WordBoundary(s, at) /\ WordBoundary(s, at + Len(w))

\* /\bw\b/.test(s)
HasWord(s, w) == \E at \in 1..Len(s) : WordAt(s, w, at)

\* the case-insensitive literal w matches in s at position at (flag i)
OccursAtNoCase(s, w, at) == OccursAt(ToUpperCase(s), ToUpperCase(w), at)


(***************************************************************************)
(* The literals of the source                                              *)
(***************************************************************************)
W_ANSWER   == <<"A","N","S","W","E","R">>
W_ANSWERS  == <<"A","N","S","W","E","R","S">>
W_KEY      == <<"K","E","Y">>
W_TRUE     == <<"T","R","U","E">>
W_FALSE    == <<"F","A","L","S","E">>
W_TRUESLASHFALSE == <<"T","R","U","E","/","F","A","L","S","E">>
W_MATCHING == <<"M","A","T","C","H","I","N","G">>
W_MATCH    == <<"M","A","T","C","H">>
W_ORDERING == <<"O","R","D","E","R","I","N","G">>
W_ORDER    == <<"O","R","D","E","R">>
W_SEQUENCE == <<"S","E","Q","U","E","N","C","E">>
W_BLANK    == <<"_","_","_">>

\* QUESTION_TYPES
MULTIPLE_CHOICE_SINGLE == "multiple_choice_single"
MULTIPLE_CHOICE_MULTI  == "multiple_choice_multi"
TRUE_FALSE             == "true_false"
FILL_IN_BLANK_TEXT     == "fill_in_blank_text"
FILL_IN_BLANK_NUMERIC  == "fill_in_blank_numeric"
ESSAY                  == "essay"
SHORT_ANSWER           == "short_answer"
MATCHING               == "matching"
ORDERING               == "ordering"
QUESTION_TYPES ==
  { MULTIPLE_CHOICE_SINGLE, MULTIPLE_CHOICE_MULTI, TRUE_FALSE, FILL_IN_BLANK_TEXT,
    FILL_IN_BLANK_NUMERIC, ESSAY, SHORT_ANSWER, MATCHING, ORDERING }

(***************************************************************************)
(* The regular expressions of the parsers                                  *)
(***************************************************************************)
\* the tail \s*:?\s*$ of the header patterns, from position at of s
TailIsColon(s, at) ==
  LET d == SkipSpaces(s, at)
      e == IF d <= Len(s) /\ s[d] = ":" THEN d + 1 ELSE d
  IN  SkipSpaces(s, e) = Len(s) + 1

\* /^\s*ANSWER\s+KEY\s*:?\s*$/i.test(s)
IsAnswerKeyPattern(s) ==
  LET a == SkipSpaces(s, 1)
      b == a + Len(W_ANSWER)
      c == SkipSpaces(s, b)
  IN  /\ OccursAtNoCase(s, W_ANSWER, a)
      /\ b <= Len(s) /\ IsSpace(s[b])
      /\ OccursAtNoCase(s, W_KEY, c)
      /\ TailIsColon(s, c + Len(W_KEY))

\* /^\s*w\s*:?\s*$/i.test(s)
IsWordPattern(s, w) ==
  LET a == SkipSpaces(s, 1)
  IN  OccursAtNoCase(s, w, a) /\ TailIsColon(s, a + Len(w))

\* isAnswerKeyHeader of AnswerKeyParsing.gs
isAnswerKeyHeader(text) ==
  /\ text # <<>>
  /\ LET t == Trim(text)
     IN  IsAnswerKeyPattern(t) \/ IsWordPattern(t, W_ANSWERS) \/ IsWordPattern(t, W_KEY)

\* the answer-key header test of parseQuestions: only the first of the patterns
QuestionsHeaderTest(elementText) == IsAnswerKeyPattern(elementText)

NoStart == [ok |-> FALSE, number |-> 0, rest |-> <<>>]
\* elementText.match(/^\s*(\d+)\s*[.)-]\s+(.*)/), with parseInt of group 1 and the
\* trimmed group 2
questionStartMatch(s) ==
  LET a == SkipSpaces(s, 1)
      b == SkipDigits(s, a)
      c == SkipSpaces(s, b)
      d == c + 1
  IN  IF /\ b > a
         /\ c <= Len(s) /\ s[c] \in {".", ")", "-"}
         /\ d <= Len(s) /\ IsSpace(s[d])
      THEN [ok |-> TRUE, number |-> ParseInt(SubSeq(s, a, b - 1)),
            rest |-> Trim(From(s, SkipSpaces(s, d)))]
      ELSE NoStart

NoOption == [ok |-> FALSE, letter |-> "", text |-> <<>>]
\* elementText.match(/^\s*(?:(?:([A-Za-z])\s*[.)])|(?:\(\s*([A-Za-z])\s*\)))\s+(.*)/),
\* with the upper-cased letter and the trimmed group 3
optionMatch(s) ==
  LET a  == SkipSpaces(s, 1)
      c  == SkipSpaces(s, a + 1)
      l  == SkipSpaces(s, a + 1)
      r  == SkipSpaces(s, l + 1)
      plain == /\ a <= Len(s) /\ IsLetter(s[a])
               /\ c <= Len(s) /\ s[c] \in {".", ")"}
      paren == /\ a <= Len(s) /\ s[a] = "("
               /\ l <= Len(s) /\ IsLetter(s[l])
               /\ r <= Len(s) /\ s[r] = ")"
      after == IF plain THEN c + 1 ELSE r + 1
      letter == IF plain THEN s[a] ELSE s[l]
  IN  IF (plain \/ paren) /\ after <= Len(s) /\ IsSpace(s[after])
      THEN [ok |-> TRUE, letter |-> UpperChar(letter),
            text |-> Trim(From(s, SkipSpaces(s, after)))]
      ELSE NoOption

\* s.replace(/^w\s*[:\-]?\s*/i, '')
StripPrefix(s, w) ==
  IF OccursAtNoCase(s, w, 1)
  THEN LET p == SkipSpaces(s, Len(w) + 1)
           q == IF p <= Len(s) /\ s[p] \in {":", "-"} THEN p + 1 ELSE p
       IN  From(s, SkipSpaces(s, q))
  ELSE s

\* s.replace(/\s+/g, ' ')
RECURSIVE CollapseSpaces(_)
CollapseSpaces(s) ==
  IF s = <<>> THEN <<>>
  ELSE IF IsSpace(s[1])
       THEN <<" ">> \o CollapseSpaces(From(s, SkipSpaces(s, 1)))
       ELSE <<s[1]>> \o CollapseSpaces(Tail(s))

\* cleanAnswerKeyText (the texts of the model hold no zero-width character)
cleanAnswerKeyText(text) ==
  CollapseSpaces(StripPrefix(StripPrefix(Trim(text), W_ANSWER), W_KEY))

\* a variant of the pattern of answer lines in which the separator is optional:
\* /^(\d+)\s*[.)-]?\s*(.*)/
answerLineMatchLoose(s) ==
  LET b == SkipDigits(s, 1)
      c == SkipSpaces(s, b)
      d == IF c <= Len(s) /\ s[c] \in {".", ")", "-"} THEN c + 1 ELSE c
  IN  [ok |-> b > 1,
       number |-> IF b > 1 THEN ParseInt(SubSeq(s, 1, b - 1)) ELSE 0,
       rest |-> IF b > 1 THEN Trim(From(s, d)) ELSE <<>>]

NoLine == [ok |-> FALSE, number |-> 0, rest |-> <<>>]
\* cleanedText.match(/^(\d+)\s*[.)-]\s*(.*)/), with parseInt of group 1 and the
\* trimmed group 2
answerLineMatch(s) ==
  LET b == SkipDigits(s, 1)
      c == SkipSpaces(s, b)
  IN  IF b > 1 /\ c <= Len(s) /\ s[c] \in {".", ")", "-"}
      THEN [ok |-> TRUE, number |-> ParseInt(SubSeq(s, 1, b - 1)),
            rest |-> Trim(From(s, c + 1))]
      ELSE NoLine

\* answerText.match(/^([A-Za-z])\b/)
mcMatch(s) == Len(s) >= 1 /\ IsLetter(s[1]) /\ WordBoundary(s, 2)

\* s.split(/[seps]/): the pieces of s between the characters of seps
RECURSIVE Split(_, _)
Split(s, seps) ==
  IF \A k \in 1..Len(s) : s[k] \notin seps THEN <<s>>
  ELSE LET at == CHOOSE k \in 1..Len(s) :
                   s[k] \in seps /\ \A j \in 1..(k - 1) : s[j] \notin seps
       IN  <<SubSeq(s, 1, at - 1)>> \o Split(From(s, at + 1), seps)

IsNonEmpty(s) == Len(s) > 0
\* the pieces as split() leaves them: neither trimmed nor filtered
UntrimmedPieces(pieces) == pieces
\* pieces.map(x => x.trim()).filter(x => x.length > 0)
TrimAll(pieces) == SelectSeq([k \in 1..Len(pieces) |-> Trim(pieces[k])], IsNonEmpty)

NoPair == [ok |-> FALSE, premise |-> <<>>, response |-> <<>>]
\* the first position >= from of s that holds white space (Len(s)+1 if none)
RECURSIVE SkipNonSpaces(_, _)
SkipNonSpaces(s, from) ==
  IF from <= Len(s) /\ ~IsSpace(s[from]) THEN SkipNonSpaces(s, from + 1) ELSE from

\* pairStr.trim().match(/^([A-Za-z]+)\s*[-=]\s*(\S+)/)
pairMatch(pairStr) ==
  LET s == Trim(pairStr)
      a == SkipLetters(s, 1)
      c == SkipSpaces(s, a)
      d == SkipSpaces(s, c + 1)
  IN  IF a > 1 /\ c <= Len(s) /\ s[c] \in {"-", "="} /\ d <= Len(s)
      THEN [ok |-> TRUE, premise |-> SubSeq(s, 1, a - 1),
            response |-> SubSeq(s, d, SkipNonSpaces(s, d) - 1)]
      ELSE NoPair

\* the digits of a fraction without the zeros at its end
RECURSIVE DropTrailingZeros(_)
DropTrailingZeros(ds) ==
  IF ds # <<>> /\ ds[Len(ds)] = "0" THEN DropTrailingZeros(SubSeq(ds, 1, Len(ds) - 1)) ELSE ds

\* parseFloat(answerText) on unsigned decimal numerals: the digits before the
\* point as a number and the digits after it; ok = FALSE is NaN
ParseFloat(s) ==
  LET a == SkipSpaces(s, 1)
      b == SkipDigits(s, a)
      hasFrac == b <= Len(s) /\ s[b] = "." /\ SkipDigits(s, b + 1) > b + 1
      e == IF hasFrac THEN SkipDigits(s, b + 1) ELSE b
  IN  [ok |-> b > a \/ hasFrac,
       int |-> ParseInt(SubSeq(s, a, b - 1)),
       frac |-> IF hasFrac THEN DropTrailingZeros(SubSeq(s, b + 1, e - 1)) ELSE <<>>]

(***************************************************************************)
(* Type inference (QuestionParsing.gs)                                     *)
(***************************************************************************)
\* /\bTRUE\b.*\bFALSE\b/.test(upperText)
TrueThenFalse(upperText) ==
  \E at \in 1..Len(upperText) : \E to \in (at + Len(W_TRUE))..Len(upperText) :
     WordAt(upperText, W_TRUE, at) /\ WordAt(upperText, W_FALSE, to)

\* /^\s*MATCH\s/i.test(text)
StartsWithMatch(text) ==
  LET a == SkipSpaces(text, 1)
      b == a + Len(W_MATCH)
  IN  OccursAtNoCase(text, W_MATCH, a) /\ b <= Len(text) /\ IsSpace(text[b])

\* the letters of a sequence of options: initialOptions.map(opt => opt.letter)
optionLetters(options) == { options[k].letter : k \in 1..Len(options) }

\* inferQuestionType(text, initialOptions)
inferQuestionType(text, initialOptions) ==
  LET upperText == ToUpperCase(text)
  IN  IF TrueThenFalse(upperText) \/ Includes(upperText, W_TRUESLASHFALSE)
        THEN TRUE_FALSE
      ELSE IF HasWord(upperText, W_MATCHING) \/ StartsWithMatch(text)
        THEN MATCHING
      ELSE IF \/ HasWord(upperText, W_ORDERING)
              \/ HasWord(upperText, W_ORDER)
              \/ HasWord(upperText, W_SEQUENCE)
        THEN ORDERING
      ELSE IF Includes(text, W_BLANK)
        THEN FILL_IN_BLANK_TEXT
      ELSE IF Len(initialOptions) > 0
        THEN IF "T" \in optionLetters(initialOptions) /\ "F" \in optionLetters(initialOptions)
             THEN TRUE_FALSE
             ELSE MULTIPLE_CHOICE_SINGLE
      ELSE SHORT_ANSWER

(***************************************************************************)
(* Maps (the global questionTypes and the answer map are JavaScript Maps)  *)
(***************************************************************************)
EmptyMap == << >>
MapHas(m, k) == k \in DOMAIN m
\* m.set(k, v)
MapSet(m, k, v) == [x \in (DOMAIN m) \cup {k} |-> IF x = k THEN v ELSE m[x]]

(***************************************************************************)
(* The document: a sequence of blocks (paragraphs or list items), each a   *)
(* text followed by a number of inline images.                             *)
(***************************************************************************)
\* the placeholder `[IMG:${imageId}]`
Placeholder(imageId) == <<"[", "I", "M", "G", ":", imageId, "]">>

\* the images of one element: ids minted from the counter minted on
RECURSIVE ElementImages(_, _)
ElementImages(n, minted) ==
  IF n = 0 THEN <<>>
  ELSE ElementImages(n - 1, minted) \o <<[id |-> UuidChars[minted + n]]>>

RECURSIVE PlaceholdersOf(_)
PlaceholdersOf(images) ==
  IF images = <<>> THEN <<>>
  ELSE Placeholder(images[1].id) \o PlaceholdersOf(Tail(images))

\* processElement(element): the trimmed text with the placeholders of the inline
\* images at their place, and the metadata of the images
processElement(element, minted) ==
  LET images == ElementImages(element.images, minted)
  IN  [text |-> Trim(element.text \o PlaceholdersOf(images)), images |-> images]

(***************************************************************************)
(* parseQuestions (QuestionParsing.gs): its locals are the record pq       *)
(***************************************************************************)
\* the locals at the start of parseQuestions; currentQuestion is <<>> (null) or
\* <<draft>>, and a draft's options are the live array currentOptions
InitialLocals ==
  [questions |-> <<>>, allImages |-> <<>>, currentQuestion |-> <<>>,
   accumulatedImages |-> <<>>, reachedAnswerKey |-> FALSE,
   currentQuestionNumber |-> 0, i |-> 0]

\* text.includes(`[IMG:${img.id}]`)
RefersTo(text, img) == Includes(text, Placeholder(img.id))

\* the images a draft refers to in its stem or in one of its options
ImagesOfQuestion(q, accumulatedImages) ==
  LET Linked(img) ==
        \/ (q.text # <<>> /\ RefersTo(q.text, img))
        \/ \E k \in 1..Len(q.options) :
             q.options[k].text # <<>> /\ RefersTo(q.options[k].text, img)
  IN  SelectSeq(accumulatedImages, Linked)

\* the finalization of a draft: its images are linked and it is complete
Finalized(q, accumulatedImages) ==
  LET images == ImagesOfQuestion(q, accumulatedImages)
  IN  [q EXCEPT !.images = images, !.hasImages = Len(images) > 0]

\* the images of an element, with the context generateImageFilename is called with
WithContext(elementImages, pq) ==
  [k \in 1..Len(elementImages) |->
     [id |-> elementImages[k].id,
      number |-> IF pq.currentQuestion # <<>> THEN pq.currentQuestion[1].number ELSE 0,
      elem |-> pq.i]]

\* a variant of the refinement that waits for the second option
RefinedFromTwo(type, options) ==
  IF Len(options) >= 2
     /\ type \notin {MULTIPLE_CHOICE_SINGLE, MULTIPLE_CHOICE_MULTI, TRUE_FALSE, MATCHING, ORDERING}
  THEN IF "T" \in optionLetters(options) /\ "F" \in optionLetters(options)
       THEN TRUE_FALSE
       ELSE MULTIPLE_CHOICE_SINGLE
  ELSE type

\* currentQuestion.type is refined when an option is appended
RefinedType(type, options) ==
  IF type \notin {MULTIPLE_CHOICE_SINGLE, MULTIPLE_CHOICE_MULTI, TRUE_FALSE, MATCHING, ORDERING}
  THEN IF "T" \in optionLetters(options) /\ "F" \in optionLetters(options)
       THEN TRUE_FALSE
       ELSE MULTIPLE_CHOICE_SINGLE
  ELSE type

\* needsSpace of the continuation branch
needsSpace(questionText, elementText) ==
  /\ questionText # <<>>
  /\ ~IsSpace(questionText[Len(questionText)])
  /\ elementText[1] \notin {".", ",", ";", ":", "!", "?"}

\* the branch "Detect Start of a New Question" of the loop body
StartQuestion(pq, types, elementText, m, acc, all) ==
  LET InElement(img) == RefersTo(elementText, img)
      kept == SelectSeq(acc, InElement)
      inferredType == inferQuestionType(m.rest, <<>>)
      q == [number |-> m.number, type |-> inferredType, text |-> m.rest,
            options |-> <<>>, images |-> <<>>, hasImages |-> Len(kept) > 0]
  IN  [pq |-> [pq EXCEPT
                 !.questions = IF pq.currentQuestion # <<>>
                               THEN Append(@, Finalized(pq.currentQuestion[1], acc))
                               ELSE @,
                 !.allImages = all,
                 !.currentQuestion = <<q>>,
                 !.accumulatedImages = kept,
                 !.currentQuestionNumber = m.number,
                 !.i = @ + 1],
       types |-> MapSet(types, m.number, inferredType)]

\* a variant of the continuation branch in which the drafts share one options
\* array: an option is appended to the last pushed draft as well
ContinueQuestionShared(pq, types, el, acc, all) ==
  LET cq == pq.currentQuestion[1]
      o  == optionMatch(el.text)
      InOption(img) == RefersTo(o.text, img)
      newOption == [letter |-> o.letter, text |-> o.text, images |-> SelectSeq(acc, InOption)]
      options == Append(cq.options, newOption)
      refined == RefinedType(cq.type, options)
      withOption == [cq EXCEPT !.options = options, !.type = refined]
      withText == [cq EXCEPT !.text = @ \o (IF needsSpace(@, el.text) THEN <<" ">> ELSE <<>>)
                                        \o el.text]
      q == IF o.ok THEN withOption ELSE IF el.text # <<>> THEN withText ELSE cq
      pushed == IF o.ok /\ pq.questions # <<>>
                THEN [pq.questions EXCEPT ![Len(pq.questions)].options = Append(@, newOption)]
                ELSE pq.questions
  IN  [pq |-> [pq EXCEPT
                 !.questions = pushed,
                 !.allImages = all,
                 !.accumulatedImages = acc,
                 !.currentQuestion =
                    <<[q EXCEPT !.hasImages = IF Len(el.images) > 0 THEN TRUE ELSE @]>>,
                 !.i = @ + 1],
       types |-> IF o.ok /\ refined # cq.type
                 THEN MapSet(types, pq.currentQuestionNumber, refined)
                 ELSE types]

\* the branch "Process as Continuation or Option of the Current Question"
ContinueQuestion(pq, types, el, acc, all) ==
  LET cq == pq.currentQuestion[1]
      o  == optionMatch(el.text)
      InOption(img) == RefersTo(o.text, img)
      newOption == [letter |-> o.letter, text |-> o.text, images |-> SelectSeq(acc, InOption)]
      options == Append(cq.options, newOption)
      refined == RefinedType(cq.type, options)
      withOption == [cq EXCEPT !.options = options, !.type = refined]
      withText == [cq EXCEPT !.text = @ \o (IF needsSpace(@, el.text) THEN <<" ">> ELSE <<>>)
                                        \o el.text]
      q == IF o.ok THEN withOption ELSE IF el.text # <<>> THEN withText ELSE cq
  IN  [pq |-> [pq EXCEPT
                 !.allImages = all,
                 !.accumulatedImages = acc,
                 !.currentQuestion =
                    <<[q EXCEPT !.hasImages = IF Len(el.images) > 0 THEN TRUE ELSE @]>>,
                 !.i = @ + 1],
       types |-> IF o.ok /\ refined # cq.type
                 THEN MapSet(types, pq.currentQuestionNumber, refined)
                 ELSE types]

\* one iteration of the loop of parseQuestions over the element body.getChild(pq.i)
ElementStep(pq, types, element, minted) ==
  LET el  == processElement(element, minted)
      new == WithContext(el.images, pq)
      acc == pq.accumulatedImages \o new
      all == pq.allImages \o new
      m   == questionStartMatch(el.text)
  IN  IF el.text = <<>> /\ el.images = <<>>
        THEN [pq |-> [pq EXCEPT !.i = @ + 1], types |-> types]
      ELSE IF QuestionsHeaderTest(el.text)
        THEN [pq |-> [pq EXCEPT !.reachedAnswerKey = TRUE], types |-> types]
      ELSE IF m.ok
        THEN StartQuestion(pq, types, el.text, m, acc, all)
      ELSE IF pq.currentQuestion # <<>>
        THEN ContinueQuestion(pq, types, el, acc, all)
      ELSE [pq |-> [pq EXCEPT !.allImages = all, !.accumulatedImages = acc, !.i = @ + 1],
            types |-> types]

\* a variant of parseQuestions that keeps the entries of the global map
NoClear(types) == types

\* questionTypes.clear() at the start of parseQuestions
ClearTypes(types) == EmptyMap

\* the code after the loop: the last draft is finalized and pushed
AfterLoop(pq) ==
  IF pq.currentQuestion # <<>>
  THEN [pq EXCEPT !.questions = Append(@, Finalized(pq.currentQuestion[1], pq.accumulatedImages))]
  ELSE pq

(***************************************************************************)
(* parseAnswerLine and parseAnswerKey (AnswerKeyParsing.gs)                *)
(***************************************************************************)
\* The answer data of a question. shape tells the JavaScript value: "null", a
\* "letter" (one-character string), "strings" (an array of strings), a "number",
\* or "pairs" (an array of {premise, response} objects).
NullAnswer ==
  [shape |-> "null", letter |-> "", list |-> <<>>, pairs |-> <<>>, int |-> 0, frac |-> <<>>]
LetterAnswer(c)  == [NullAnswer EXCEPT !.shape = "letter", !.letter = c]
StringsAnswer(l) == [NullAnswer EXCEPT !.shape = "strings", !.list = l]
NumberAnswer(f)  == [NullAnswer EXCEPT !.shape = "number", !.int = f.int, !.frac = f.frac]
PairsAnswer(p)   == [NullAnswer EXCEPT !.shape = "pairs", !.pairs = p]

\* [...new Set(answerText.toUpperCase().match(/[A-Za-z]/g))].sort()
UniqueSortedLetters(answerText) ==
  LET Occurs(c) == c \in Range(ToUpperCase(answerText))
      sorted == SelectSeq(UpperLetters, Occurs)
  IN  [k \in 1..Len(sorted) |-> <<sorted[k]>>]

\* the pairs of a matching answer: the pieces that match, in order
RECURSIVE MatchingPairs(_)
MatchingPairs(pieces) ==
  IF pieces = <<>> THEN <<>>
  ELSE LET m == pairMatch(pieces[1])
       IN  (IF m.ok THEN <<[premise |-> Trim(m.premise), response |-> Trim(m.response)]>>
            ELSE <<>>) \o MatchingPairs(Tail(pieces))

\* the sequence of an ordering answer
OrderingSequence(answerText) ==
  IF "," \in Range(answerText) \/ ";" \in Range(answerText)
  THEN TrimAll(Split(answerText, {",", ";"}))
  ELSE TrimAll(Split(answerText, {" "}))

NoParsedLine == [ok |-> FALSE, number |-> 0, answer |-> NullAnswer]
\* the switch of parseAnswerLine on the type of the question
DecodeAnswer(type, questionNumber, answerText) ==
  LET Parsed(answer) == [ok |-> TRUE, number |-> questionNumber, answer |-> answer]
  IN  CASE type \in {MULTIPLE_CHOICE_SINGLE, TRUE_FALSE} ->
             IF mcMatch(answerText) THEN Parsed(LetterAnswer(UpperChar(answerText[1])))
             ELSE NoParsedLine
        [] type = MULTIPLE_CHOICE_MULTI ->
             IF \E k \in 1..Len(answerText) : IsLetter(answerText[k])
             THEN Parsed(StringsAnswer(UniqueSortedLetters(answerText)))
             ELSE NoParsedLine
        [] type \in {FILL_IN_BLANK_TEXT, SHORT_ANSWER, ESSAY} ->
             Parsed(StringsAnswer(TrimAll(Split(answerText, {",", ";"}))))
        [] type = FILL_IN_BLANK_NUMERIC ->
             IF ParseFloat(answerText).ok THEN Parsed(NumberAnswer(ParseFloat(answerText)))
             ELSE NoParsedLine
        [] type = MATCHING ->
             LET pairs == MatchingPairs(Split(answerText, {",", ";"}))
             IN  IF Len(pairs) = 0 THEN NoParsedLine ELSE Parsed(PairsAnswer(pairs))
        [] type = ORDERING ->
             LET sequence == OrderingSequence(answerText)
             IN  IF Len(sequence) > 0 THEN Parsed(StringsAnswer(sequence)) ELSE NoParsedLine
        [] OTHER -> NoParsedLine

\* parseAnswerLine(lineText), reading the global questionTypes (types)
parseAnswerLine(lineText, types) ==
  LET m == answerLineMatch(cleanAnswerKeyText(lineText))
  IN  IF Trim(lineText) = <<>> THEN NoParsedLine
      ELSE IF ~m.ok THEN NoParsedLine
      ELSE IF ~MapHas(types, m.number) THEN NoParsedLine
      ELSE DecodeAnswer(types[m.number], m.number, m.rest)

\* the loop of parseAnswerKey from child k on; the text of a child is getText(),
\* which holds no image placeholder
RECURSIVE AnswerKeyLoop(_, _, _, _, _)
AnswerKeyLoop(body, k, foundKey, answers, types) ==
  IF k > Len(body) THEN answers
  ELSE LET text == Trim(body[k].text)
           parsedLine == parseAnswerLine(text, types)
       IN  IF ~foundKey /\ isAnswerKeyHeader(text)
             THEN AnswerKeyLoop(body, k + 1, TRUE, answers, types)
           ELSE IF foundKey /\ text # <<>> /\ parsedLine.ok
             THEN AnswerKeyLoop(body, k + 1, foundKey,
                                MapSet(answers, parsedLine.number, parsedLine.answer), types)
           ELSE AnswerKeyLoop(body, k + 1, foundKey, answers, types)

\* a loop that keeps the first answer of a number and drops the later ones
RECURSIVE FirstWinsLoop(_, _, _, _, _)
FirstWinsLoop(body, k, foundKey, answers, types) ==
  IF k > Len(body) THEN answers
  ELSE LET text == Trim(body[k].text)
           parsedLine == parseAnswerLine(text, types)
       IN  IF ~foundKey /\ isAnswerKeyHeader(text)
             THEN FirstWinsLoop(body, k + 1, TRUE, answers, types)
           ELSE IF foundKey /\ text # <<>> /\ parsedLine.ok /\ ~MapHas(answers, parsedLine.number)
             THEN FirstWinsLoop(body, k + 1, foundKey,
                                MapSet(answers, parsedLine.number, parsedLine.answer), types)
           ELSE FirstWinsLoop(body, k + 1, foundKey, answers, types)
parseAnswerKeyFirstWins(body, types) == FirstWinsLoop(body, 1, FALSE, EmptyMap, types)

\* parseAnswerKey(): the Map of number -> answer data
parseAnswerKey(body, types) == AnswerKeyLoop(body, 1, FALSE, EmptyMap, types)

(***************************************************************************)
(* combineQuestionsAndAnswers (Code.gs)                                    *)
(***************************************************************************)
\* every draft of parseQuestions is an object with a number, so none is skipped
\* a combination that looks the answer up by the position of the question
combineByPosition(questions, answerMap) ==
  [k \in 1..Len(questions) |->
     [number  |-> questions[k].number,
      type    |-> questions[k].type,
      text    |-> questions[k].text,
      options |-> questions[k].options,
      images  |-> questions[k].images,
      hasImages |-> questions[k].hasImages,
      correctAnswer |-> IF MapHas(answerMap, k) THEN answerMap[k] ELSE NullAnswer]]

combineQuestionsAndAnswers(questions, answerMap) ==
  [k \in 1..Len(questions) |->
     [number  |-> questions[k].number,
      type    |-> questions[k].type,
      text    |-> questions[k].text,
      options |-> questions[k].options,
      images  |-> questions[k].images,
      hasImages |-> questions[k].hasImages,
      correctAnswer |-> IF MapHas(answerMap, questions[k].number)
                        THEN answerMap[questions[k].number]
                        ELSE NullAnswer]]

(***************************************************************************)
(* The item generators (QTIExport.gs). An item document is the record of   *)
(* what it holds: its qmd_itemtype, the idents of the response labels of   *)
(* the options (choices) and of a matching item's responses, and the       *)
(* conditions that set SCORE to 100, each the list of its varequal or      *)
(* varsubset elements (an element is the sequence of the tokens in it).    *)
(***************************************************************************)
NoItem == [made |-> FALSE, itemtype |-> "", choices |-> <<>>, responses |-> {}, full |-> <<>>]
Item(itemtype, choices, full) ==
  [made |-> TRUE, itemtype |-> itemtype, choices |-> choices, responses |-> {}, full |-> full]
Condition(test, elements) == [test |-> test, elements |-> elements]

\* `choice_${opt.letter}`, `premise_${opt.letter}`
ChoiceIdent(letter)  == <<"c","h","o","i","c","e","_", letter>>
PremiseIdent(letter) == <<"p","r","e","m","i","s","e","_", letter>>
\* `response_${responseVal.replace(/[^a-zA-Z0-9]/g, '_')}`
ResponseIdent(responseVal) ==
  <<"r","e","s","p","o","n","s","e","_">> \o
  [k \in 1..Len(responseVal) |->
     IF IsLetter(responseVal[k]) \/ IsDigit(responseVal[k]) THEN responseVal[k] ELSE "_"]

\* a value is truthy: null, the number 0 and NaN are not
Truthy(answer) ==
  /\ answer.shape # "null"
  /\ ~(answer.shape = "number" /\ answer.int = 0 /\ answer.frac = <<>>)
\* Array.isArray(q.correctAnswer)
IsArray(answer) == answer.shape \in {"strings", "pairs"}
\* the length of an array answer
ArrayLength(answer) == IF answer.shape = "pairs" THEN Len(answer.pairs) ELSE Len(answer.list)

\* the placeholder options of a question without options
PlaceholderOptions(type) ==
  IF type = TRUE_FALSE
  THEN << [letter |-> "T", text |-> <<"T","r","u","e">>, images |-> <<>>],
          [letter |-> "F", text |-> <<"F","a","l","s","e">>, images |-> <<>>] >>
  ELSE << [letter |-> "A", text |-> <<"O","p","t","i","o","n"," ","A">>, images |-> <<>>],
          [letter |-> "B", text |-> <<"O","p","t","i","o","n"," ","B">>, images |-> <<>>] >>

\* a variant of the generator that always binds the first option
FirstChoice(options, correctAnswer) == ChoiceIdent(options[1].letter)

\* the option the loop of QTI_createMultipleChoiceSingleItem leaves in
\* correctChoiceIdentifier: the last option whose letter is the correct answer,
\* and the first option when there is none
CorrectChoice(options, correctAnswer) ==
  LET Hits == { k \in 1..Len(options) :
                  /\ Truthy(correctAnswer)
                  /\ correctAnswer.shape = "letter"
                  /\ correctAnswer.letter = options[k].letter }
  IN  IF Hits # {}
      THEN ChoiceIdent(options[CHOOSE k \in Hits : \A j \in Hits : j <= k].letter)
      ELSE ChoiceIdent(options[1].letter)

\* QTI_createMultipleChoiceSingleItem(q, ...): the item, and q as the call leaves it
QTI_createMultipleChoiceSingleItem(q) ==
  LET padded == Len(q.options) = 0
      options == IF padded THEN PlaceholderOptions(q.type) ELSE q.options
      correctAnswer == IF padded /\ q.correctAnswer.shape = "null"
                       THEN LetterAnswer(options[1].letter)
                       ELSE q.correctAnswer
      choices == [k \in 1..Len(options) |-> ChoiceIdent(options[k].letter)]
  IN  [item |-> Item("Multiple Choice", choices,
                     << Condition("varequal", << <<CorrectChoice(options, correctAnswer)>> >>) >>),
       q |-> [q EXCEPT !.options = options, !.correctAnswer = correctAnswer]]

\* the strings of an array answer that are valid answers of a text item
ValidText(answer) ==
  LET Valid(s) == Len(Trim(s)) > 0
      valid == IF answer.shape = "strings" THEN SelectSeq(answer.list, Valid) ELSE <<>>
  IN  [k \in 1..Len(valid) |-> <<Trim(valid[k])>>]

\* QTI_createFillInBlankTextItem(q, ...)
QTI_createFillInBlankTextItem(q) ==
  [item |-> Item("Fill in the Blank", <<>>,
                 IF Len(ValidText(q.correctAnswer)) > 0
                 THEN << Condition("varequal", ValidText(q.correctAnswer)) >>
                 ELSE <<>>),
   q |-> q]

\* the decimal numeral of a number: `${q.correctAnswer}`
RECURSIVE Numeral(_)
Numeral(n) == IF n < 10 THEN <<DigitChars[n + 1]>> ELSE Numeral(n \div 10) \o <<DigitChars[(n % 10) + 1]>>

\* QTI_createFillInBlankNumericItem(q, ...)
QTI_createFillInBlankNumericItem(q) ==
  [item |-> Item("Fill in the Blank Numeric", <<>>,
                 IF q.correctAnswer.shape = "number"
                 THEN << Condition("varequal",
                           << <<Numeral(q.correctAnswer.int) \o
                                (IF q.correctAnswer.frac # <<>> THEN <<".">> \o q.correctAnswer.frac
                                 ELSE <<>>)>> >>) >>
                 ELSE <<>>),
   q |-> q]

\* QTI_createEssayItem(q, ...): any response scores 100
QTI_createEssayItem(q) ==
  [item |-> Item("Essay", <<>>, << Condition("other", <<>>) >>), q |-> q]

\* the guard of the matching and ordering generators: options and a non-empty array
HasOptionsAndArray(q) ==
  Len(q.options) > 0 /\ Truthy(q.correctAnswer) /\ IsArray(q.correctAnswer)
  /\ ArrayLength(q.correctAnswer) > 0

\* QTI_createMatchingItem(q, ...)
QTI_createMatchingItem(q) ==
  LET pairs == q.correctAnswer.pairs
      IsPremise(pair) == \E k \in 1..Len(q.options) : pair.premise = <<q.options[k].letter>>
      mapped == SelectSeq(pairs, IsPremise)
      pairTokens == [k \in 1..Len(mapped) |->
                       PremiseIdent(mapped[k].premise[1]) \o <<".">> \o ResponseIdent(mapped[k].response)]
      \* the response labels, one for each of uniqueResponses
      responses == { ResponseIdent(pairs[k].response) : k \in 1..Len(pairs) }
  IN  IF ~HasOptionsAndArray(q) \/ Len(mapped) = 0
      THEN [item |-> NoItem, q |-> q]
      ELSE [item |-> [Item("Matching",
                           [k \in 1..Len(q.options) |-> PremiseIdent(q.options[k].letter)],
                           << Condition("varsubset", <<pairTokens>>) >>)
                      EXCEPT !.responses = responses],
            q |-> q]

\* a generator that makes an ordering item of whatever it is given
OrderingItemOfAnything(q) ==
  [item |-> Item("Ordering",
                 [k \in 1..Len(q.options) |-> ChoiceIdent(q.options[k].letter)], <<>>),
   q |-> q]

\* QTI_createOrderingItem(q, ...)
QTI_createOrderingItem(q) ==
  LET sequence == q.correctAnswer.list
      IsOption(token) == \E k \in 1..Len(q.options) : token = <<q.options[k].letter>>
      mapped == SelectSeq(sequence, IsOption)
      correctSequenceIdents == [k \in 1..Len(mapped) |-> ChoiceIdent(mapped[k][1])]
  IN  IF \/ ~HasOptionsAndArray(q)
         \/ q.correctAnswer.shape # "strings"
         \/ Len(mapped) # Len(sequence)
      THEN [item |-> NoItem, q |-> q]
      ELSE [item |-> Item("Ordering",
                          [k \in 1..Len(q.options) |-> ChoiceIdent(q.options[k].letter)],
                          << Condition("varequal", <<correctSequenceIdents>>) >>),
            q |-> q]

\* QTI_createItemXML(question, ...): the switch on the type of the question
QTI_createItemXML(question) ==
  CASE question.type \in {MULTIPLE_CHOICE_SINGLE, TRUE_FALSE} ->
         QTI_createMultipleChoiceSingleItem(question)
    [] question.type \in {FILL_IN_BLANK_TEXT, SHORT_ANSWER} ->
         QTI_createFillInBlankTextItem(question)
    [] question.type = FILL_IN_BLANK_NUMERIC -> QTI_createFillInBlankNumericItem(question)
    [] question.type = ESSAY -> QTI_createEssayItem(question)
    [] question.type = MATCHING -> QTI_createMatchingItem(question)
    [] question.type = ORDERING -> QTI_createOrderingItem(question)
    [] OTHER -> [item |-> NoItem, q |-> question]

\* a loop that keeps the identifier of an item also when no file is written
RECURSIVE GenerateItemsNoPop(_, _)
GenerateItemsNoPop(questionsData, k) ==
  IF k > Len(questionsData)
  THEN [files |-> <<>>, itemIdentifiers |-> <<>>, questionsData |-> <<>>]
  ELSE LET q == questionsData[k]
           itemNumber == IF q.number # 0 THEN q.number ELSE k
           made == QTI_createItemXML(q)
           rest == GenerateItemsNoPop(questionsData, k + 1)
       IN  [files |-> (IF made.item.made
                       THEN <<[index |-> k, itemNumber |-> itemNumber, xml |-> made.item]>>
                       ELSE <<>>)
                      \o rest.files,
            itemIdentifiers |-> <<itemNumber>> \o rest.itemIdentifiers,
            questionsData |-> <<made.q>> \o rest.questionsData]

(***************************************************************************)
(* QTIExport_createQTIPackage (QTIExport.gs), step 3: the item files       *)
(***************************************************************************)
\* the forEach over questionsData from index k on: the item files written (each
\* with the index of its question), the
\* item identifiers kept (an identifier `item_${itemNumber}` is its number) and
\* the questions as the generators leave them
RECURSIVE GenerateItems(_, _)
GenerateItems(questionsData, k) ==
  IF k > Len(questionsData)
  THEN [files |-> <<>>, itemIdentifiers |-> <<>>, questionsData |-> <<>>]
  ELSE LET q == questionsData[k]
           itemNumber == IF q.number # 0 THEN q.number ELSE k
           made == QTI_createItemXML(q)
           rest == GenerateItems(questionsData, k + 1)
       IN  [files |-> (IF made.item.made
                       THEN <<[index |-> k, itemNumber |-> itemNumber, xml |-> made.item]>>
                       ELSE <<>>)
                      \o rest.files,
            itemIdentifiers |-> (IF made.item.made THEN <<itemNumber>> ELSE <<>>)
                                \o rest.itemIdentifiers,
            questionsData |-> <<made.q>> \o rest.questionsData]

\* QTI_createAssessmentXML(title, assessmentIdent, itemIdentifiers): one
\* assessmentItemRef per identifier, in order (href "items/<ident>.xml")
QTI_createAssessmentXML(itemIdentifiers) ==
  [k \in 1..Len(itemIdentifiers) |->
     [href |-> itemIdentifiers[k], identifier |-> itemIdentifiers[k]]]

\* QTI_createManifestXML(title, assessmentIdent, itemIdentifiers, imageFilenameMap):
\* one resource and one dependency per item identifier, in order, and one
\* webcontent resource per value of the image map
QTI_createManifestXML(itemIdentifiers, imageFilenameMap) ==
  [items |-> [k \in 1..Len(itemIdentifiers) |->
                [identifier |-> itemIdentifiers[k], href |-> itemIdentifiers[k]]],
   dependencies |-> itemIdentifiers,
   images |-> { imageFilenameMap[id] : id \in DOMAIN imageFilenameMap }]

(***************************************************************************)
(* The documents of the model                                              *)
(***************************************************************************)
\* the longest question part of a document
MaxQuestionBlocks == 3

Text(text) == [text |-> text, images |-> 0]

\* "1. Pick", "1. Order it", "2) a ___": the starts of questions
\* "(a) x", "T. t", "F. f": options; "see" and an inline image: a continuation
QuestionBlocks ==
  { Text(<<"1", ".", " ", "P", "i", "c", "k">>),
    Text(<<"1", ".", " ", "O", "r", "d", "e", "r", " ", "i", "t">>),
    Text(<<"2", ")", " ", "a", " ", "_", "_", "_">>),
    Text(<<"(", "a", ")", " ", "x">>),
    Text(<<"T", ".", " ", "t">>),
    Text(<<"F", ".", " ", "f">>),
    [text |-> <<"s", "e", "e">>, images |-> 1] }

\* "Answer Key" and "Answers"
HeaderBlocks ==
  { Text(<<"A", "n", "s", "w", "e", "r", " ", "K", "e", "y">>),
    Text(<<"A", "n", "s", "w", "e", "r", "s">>) }

\* "1. A", "1 T", "1. T, A", "1. T A", "2. a"
AnswerBlocks ==
  { Text(<<"1", ".", " ", "A">>),
    Text(<<"1", " ", "T">>),
    Text(<<"1", ".", " ", "T", ",", " ", "A">>),
    Text(<<"1", ".", " ", "T", " ", "A">>),
    Text(<<"2", ".", " ", "a">>) }

\* the sequences of at most n elements of S
RECURSIVE SeqsUpTo(_, _)
SeqsUpTo(S, n) ==
  IF n = 0 THEN { <<>> }
  ELSE LET shorter == SeqsUpTo(S, n - 1)
       IN  shorter \cup { Append(s, x) : s \in shorter, x \in S }

\* the documents with at most n question blocks: the question blocks, then
\* possibly a header, then possibly an answer line
DocumentsOf(n) ==
  { q \o h \o a : q \in SeqsUpTo(QuestionBlocks, n),
                  h \in { <<>> } \cup { <<b>> : b \in HeaderBlocks },
                  a \in { <<>> } \cup { <<b>> : b \in AnswerBlocks } }
Documents == DocumentsOf(MaxQuestionBlocks)

\* another version of the document, parsed between two conversions of doc:
\* "1. Order it", "2) a ___", "(a) x"
OtherDocument ==
  << Text(<<"1", ".", " ", "O", "r", "d", "e", "r", " ", "i", "t">>),
     Text(<<"2", ")", " ", "a", " ", "_", "_", "_">>),
     Text(<<"(", "a", ")", " ", "x">>) >>

(***************************************************************************)
(* The state: one conversion, startConversion (Code.gs)                    *)
(***************************************************************************)
VARIABLES
  doc,             \* the body of the active document
  pc,              \* where startConversion stands
  minted,          \* the number of calls of Utilities.getUuid() so far
  pq,              \* the locals of parseQuestions
  questionTypes,   \* the global Map questionTypes
  answerMap,       \* the Map returned by parseAnswerKey
  combinedData,    \* the result of combineQuestionsAndAnswers
  itemFiles,       \* the item files written to the items folder
  itemIdentifiers, \* the identifiers referenced by assessment and manifest
  exportInvoked,   \* QTIExport_createQTIPackage has been called
  result,          \* the value startConversion returns: "none" until it returns
  run,             \* 1 in the first conversion of doc, 2 in the second
  firstRun,        \* in the second conversion: what the parsers returned in the first
  call,            \* a call of one function on its own: its name, arguments and result
  scriptProperties,\* the script properties lastExportFileId and lastExportFileName
  driveFiles,      \* the zip packages created in Drive, oldest first
  download         \* what the calls of getDirectDownloadUrl so far returned last

vars == <<doc, pc, minted, pq, questionTypes, answerMap, combinedData, itemFiles,
          itemIdentifiers, exportInvoked, result, run, firstRun, call,
          scriptProperties, driveFiles, download>>

\* what parseQuestions and parseAnswerKey have returned
Parsed == [questions |-> pq.questions, types |-> questionTypes, answers |-> answerMap]
NothingParsed == [questions |-> <<>>, types |-> EmptyMap, answers |-> EmptyMap]
\* no function is called on its own
NoCall == [fn |-> "none", done |-> TRUE]

\* the script properties before any export: getProperty returns null (0)
NoProperties == [lastExportFileId |-> 0, lastExportFileName |-> 0]
\* getDirectDownloadUrl has not been called
NoDownload == [calls |-> 0, status |-> "none", data |-> 0, filename |-> 0]

Init ==
  /\ doc \in Documents
  /\ pc = "idle"
  /\ minted = 0
  /\ pq = InitialLocals
  /\ questionTypes = EmptyMap
  /\ answerMap = EmptyMap
  /\ combinedData = <<>>
  /\ itemFiles = <<>>
  /\ itemIdentifiers = <<>>
  /\ exportInvoked = FALSE
  /\ result = "none"
  /\ run = 1
  /\ firstRun = NothingParsed
  /\ call = NoCall
  /\ scriptProperties = NoProperties
  /\ driveFiles = <<>>
  /\ download = NoDownload

\* startConversion calls parseQuestions, which resets the global map and its locals
StartParseQuestions ==
  /\ pc = "idle"
  /\ pc' = "parseQuestions"
  /\ pq' = InitialLocals
  /\ questionTypes' = ClearTypes(questionTypes)
  /\ UNCHANGED <<doc, minted, answerMap, combinedData, itemFiles, itemIdentifiers,
                 exportInvoked, result, run, firstRun, call,
                 scriptProperties, driveFiles, download>>

\* one iteration of the loop of parseQuestions
ParseElement ==
  /\ pc = "parseQuestions"
  /\ pq.i < Len(doc)
  /\ ~pq.reachedAnswerKey
  /\ LET step == ElementStep(pq, questionTypes, doc[pq.i + 1], minted)
     IN  /\ pq' = step.pq
         /\ questionTypes' = step.types
  /\ minted' = minted + doc[pq.i + 1].images
  /\ UNCHANGED <<doc, pc, answerMap, combinedData, itemFiles, itemIdentifiers,
                 exportInvoked, result, run, firstRun, call,
                 scriptProperties, driveFiles, download>>

\* the loop is over: parseQuestions finalizes the last draft and returns;
\* startConversion throws an AppError when there is no question, and its catch
\* block returns {success: false}
ReturnQuestions ==
  /\ pc = "parseQuestions"
  /\ pq.i >= Len(doc) \/ pq.reachedAnswerKey
  /\ pq' = AfterLoop(pq)
  /\ IF Len(pq'.questions) = 0
     THEN pc' = "returned" /\ result' = "failure"
     ELSE pc' = "parseAnswerKey" /\ result' = result
  /\ UNCHANGED <<doc, minted, questionTypes, answerMap, combinedData, itemFiles,
                 itemIdentifiers, exportInvoked, run, firstRun, call,
                 scriptProperties, driveFiles, download>>

\* startConversion calls parseAnswerKey
ParseAnswerKey ==
  /\ pc = "parseAnswerKey"
  /\ answerMap' = parseAnswerKey(doc, questionTypes)
  /\ pc' = "combine"
  /\ UNCHANGED <<doc, minted, pq, questionTypes, combinedData, itemFiles, itemIdentifiers,
                 exportInvoked, result, run, firstRun, call,
                 scriptProperties, driveFiles, download>>

\* startConversion calls combineQuestionsAndAnswers
Combine ==
  /\ pc = "combine"
  /\ combinedData' = combineQuestionsAndAnswers(pq.questions, answerMap)
  /\ pc' = "export"
  /\ UNCHANGED <<doc, minted, pq, questionTypes, answerMap, itemFiles, itemIdentifiers,
                 exportInvoked, result, run, firstRun, call,
                 scriptProperties, driveFiles, download>>

\* startConversion calls QTIExport_createQTIPackage, which reports success (the
\* Drive and zip collaborators do not fail), and returns {success: true}
Export ==
  /\ pc = "export"
  /\ LET out == GenerateItems(combinedData, 1)
     IN  /\ itemFiles' = out.files
         /\ itemIdentifiers' = out.itemIdentifiers
         /\ combinedData' = out.questionsData
  /\ LET exportFile == [id |-> Len(driveFiles) + 1, name |-> run]
     IN  /\ driveFiles' = Append(driveFiles, exportFile)
         /\ scriptProperties' = [lastExportFileId |-> exportFile.id,
                                 lastExportFileName |-> exportFile.name]
  /\ exportInvoked' = TRUE
  /\ result' = "success"
  /\ pc' = "returned"
  /\ UNCHANGED <<doc, minted, pq, questionTypes, answerMap, run, firstRun, call, download>>

\* parseQuestions() as a whole over a body: the loop from the state of its locals
RECURSIVE ParseLoop(_, _, _, _)
ParseLoop(locals, types, body, ids) ==
  IF locals.i >= Len(body) \/ locals.reachedAnswerKey
  THEN [pq |-> AfterLoop(locals), types |-> types, minted |-> ids]
  ELSE LET step == ElementStep(locals, types, body[locals.i + 1], ids)
       IN  ParseLoop(step.pq, step.types, body, ids + body[locals.i + 1].images)

\* the document is converted a second time, unchanged
Rerun ==
  /\ pc = "returned"
  /\ run = 1
  /\ run' = 2
  /\ firstRun' = Parsed
  /\ pc' = "idle"
  /\ UNCHANGED <<doc, minted, pq, questionTypes, answerMap, combinedData, itemFiles,
                 itemIdentifiers, exportInvoked, result, call,
                 scriptProperties, driveFiles, download>>

\* between the two conversions parseQuestions runs over another version of the
\* document, and leaves its types in the global map
OtherParse ==
  /\ pc = "idle"
  /\ run = 2
  /\ questionTypes = firstRun.types
  /\ LET other == ParseLoop(InitialLocals, ClearTypes(questionTypes), OtherDocument, minted)
     IN  /\ questionTypes' = other.types
         /\ minted' = other.minted
  /\ questionTypes' # questionTypes
  /\ UNCHANGED <<doc, pc, pq, answerMap, combinedData, itemFiles, itemIdentifiers,
                 exportInvoked, result, run, firstRun, call,
                 scriptProperties, driveFiles, download>>

Next ==
  \/ StartParseQuestions
  \/ ParseElement
  \/ ReturnQuestions
  \/ ParseAnswerKey
  \/ Combine
  \/ Export

Spec == Init /\ [][Next]_vars

\* the conversions of a document that is converted twice
InitRerun == Init /\ doc \in DocumentsOf(MaxQuestionBlocks - 1)
NextRerun == Next \/ Rerun \/ OtherParse
SpecRerun == InitRerun /\ [][NextRerun]_vars

(***************************************************************************)
(* A session: conversions and downloads in any order (Code.gs)             *)
(***************************************************************************)
\* the most conversions and downloads of a session
MaxConversions == 3
MaxDownloads == 2

\* the documents of a session: "see" (no question, the conversion fails),
\* "1. Pick", and "1. Pick" with the option "(a) x"
SessionDocuments ==
  { << [text |-> <<"s", "e", "e">>, images |-> 0] >>,
    << Text(<<"1", ".", " ", "P", "i", "c", "k">>) >>,
    << Text(<<"1", ".", " ", "P", "i", "c", "k">>), Text(<<"(", "a", ")", " ", "x">>) >> }

\* a variant of the download that returns the oldest package of the Drive
downloadOldest(properties, files, calls) ==
  IF files = <<>>
  THEN [calls |-> calls + 1, status |-> "error", data |-> 0, filename |-> 0]
  ELSE [calls |-> calls + 1, status |-> "ok", data |-> files[1].id, filename |-> files[1].name]

\* getDirectDownloadUrl(): it throws when the property lastExportFileId is not
\* set; otherwise it returns the bytes of DriveApp.getFileById(fileId) under
\* the stored name, or under the name of the file when none is stored
getDirectDownloadUrl(properties, files, calls) ==
  IF properties.lastExportFileId = 0
  THEN [calls |-> calls + 1, status |-> "error", data |-> 0, filename |-> 0]
  ELSE LET file == files[properties.lastExportFileId]
       IN  [calls |-> calls + 1, status |-> "ok", data |-> file.id,
            filename |-> IF properties.lastExportFileName # 0
                         THEN properties.lastExportFileName
                         ELSE file.name]

\* the sidebar calls getDirectDownloadUrl, between two conversions
Download ==
  /\ pc \in {"idle", "returned"}
  /\ download.calls < MaxDownloads
  /\ download' = getDirectDownloadUrl(scriptProperties, driveFiles, download.calls)
  /\ UNCHANGED <<doc, pc, minted, pq, questionTypes, answerMap, combinedData, itemFiles,
                 itemIdentifiers, exportInvoked, result, run, firstRun, call,
                 scriptProperties, driveFiles>>

\* the sidebar calls startConversion again, on a document of the session: a
\* new execution, in which only the script properties and the Drive are kept
ConvertAgain ==
  /\ pc = "returned"
  /\ run < MaxConversions
  /\ doc' \in SessionDocuments
  /\ run' = run + 1
  /\ pc' = "idle"
  /\ minted' = 0
  /\ pq' = InitialLocals
  /\ questionTypes' = EmptyMap
  /\ answerMap' = EmptyMap
  /\ combinedData' = <<>>
  /\ itemFiles' = <<>>
  /\ itemIdentifiers' = <<>>
  /\ exportInvoked' = FALSE
  /\ result' = "none"
  /\ UNCHANGED <<firstRun, call, scriptProperties, driveFiles, download>>

InitSession == Init /\ doc \in SessionDocuments
NextSession == Next \/ ConvertAgain \/ Download
SpecSession == InitSession /\ [][NextSession]_vars

(***************************************************************************)
(* The properties of the specification                                     *)
(***************************************************************************)
\* the text parseQuestions reads from block k of the document
BlockText(k) == processElement(doc[k], 0).text
\* block k carries a leading-integer marker
IsMarker(k) == questionStartMatch(BlockText(k)).ok
\* the blocks that are answer-key headers: "answer key", "answers" or "key"
HeaderIndexes == { k \in 1..Len(doc) : isAnswerKeyHeader(Trim(doc[k].text)) }
\* the answer-key boundary: the first header, or the end of the document
Boundary ==
  IF HeaderIndexes = {} THEN Len(doc) + 1
  ELSE CHOOSE k \in HeaderIndexes : \A j \in HeaderIndexes : k <= j
\* the question numbers of the markers before the boundary
MarkerNumbers ==
  { questionStartMatch(BlockText(k)).number : k \in { j \in 1..(Boundary - 1) : IsMarker(j) } }
\* parseQuestions has returned its drafts to startConversion
QuestionsReturned == pc \in {"parseAnswerKey", "combine", "export", "returned"}

\* C1: the number of drafts parseQuestions returns is the number of distinct
\* question numbers of the marker blocks before the answer-key boundary.
C1_DraftCountIsDistinctMarkers ==
  QuestionsReturned => Len(pq.questions) = Cardinality(MarkerNumbers)

\* C2: no two drafts returned by parseQuestions have the same number.
C2_NumbersUnique ==
  QuestionsReturned =>
    \A j, k \in 1..Len(pq.questions) :
       j # k => pq.questions[j].number # pq.questions[k].number

\* C3: parseQuestions stops at the first answer-key header ("answer key",
\* "answers" or "key", the header parseAnswerKey starts at): the drafts it
\* returns are those of the blocks before that header, the last one finalized
\* there, and no later block starts a draft, adds an option or extends a stem.
C3_HeaderStopsParsing ==
  QuestionsReturned =>
    pq.questions =
      ParseLoop(InitialLocals, EmptyMap, SubSeq(doc, 1, Boundary - 1), 0).pq.questions

\* C4: when no block before the answer-key boundary carries a leading-integer
\* marker, startConversion returns success = false and
\* QTIExport_createQTIPackage is never called.
C4_NoMarkerIsFatal ==
  (exportInvoked \/ pc = "returned") =>
    (MarkerNumbers = {} => ~exportInvoked /\ result = "failure")

\* the shape of the answer data prescribed for a question type
ShapeOf(type) ==
  CASE type \in {MULTIPLE_CHOICE_SINGLE, TRUE_FALSE} -> "letter"
    [] type = FILL_IN_BLANK_NUMERIC -> "number"
    [] type = MATCHING -> "pairs"
    [] OTHER -> "strings"

\* C5: at combination time every entry with a non-null answer holds an answer
\* of the shape of the entry's own type: a letter for MC-single and true/false,
\* a list of strings for fill-in-blank text, short answer and essay, a number
\* for numeric, a list of pairs for matching, a token list for ordering.
C5_AnswerShapeMatchesType ==
  pc = "export" =>
    \A k \in 1..Len(combinedData) :
       combinedData[k].correctAnswer.shape # "null" =>
         combinedData[k].correctAnswer.shape = ShapeOf(combinedData[k].type)

\* the intermediate representation, as combineQuestionsAndAnswers returns it
IR == combineQuestionsAndAnswers(pq.questions, answerMap)
\* the item files generated from entry k
FilesOf(k) == { f \in 1..Len(itemFiles) : itemFiles[f].index = k }
\* startConversion has returned after the export
Exported == pc = "returned" /\ result = "success"
\* an MC-single entry whose correct answer is the letter of one of its options
HasKeyedOption(q) ==
  /\ q.type = MULTIPLE_CHOICE_SINGLE
  /\ q.correctAnswer.shape = "letter"
  /\ q.correctAnswer.letter \in optionLetters(q.options)
\* the item has one full-score condition, which tests equality with ident
OnlyFullScoreIs(item, ident) ==
  item.full = << Condition("varequal", << <<ident>> >>) >>

\* C6 (as amended): the item of an MC-single entry whose correct answer is the
\* letter of one of its options has exactly one full-score condition; it tests
\* equality with choice_<that letter>, which is the identifier of every
\* emitted choice of an option with that letter and of no other emitted choice.
C6_FullScoreBindsCorrectLetter ==
  Exported =>
    \A k \in 1..Len(IR) :
       HasKeyedOption(IR[k]) =>
         /\ FilesOf(k) # {}
         /\ \A f \in FilesOf(k) :
              LET item  == itemFiles[f].xml
                  ident == ChoiceIdent(IR[k].correctAnswer.letter)
              IN  /\ OnlyFullScoreIs(item, ident)
                  /\ Len(item.choices) = Len(IR[k].options)
                  /\ \A j \in 1..Len(item.choices) :
                       item.choices[j] = ident
                         <=> IR[k].options[j].letter = IR[k].correctAnswer.letter

\* C6 reached: the correct answer of an exported MC-single entry is the letter
\* of an option that is not its first one
C6_Witness ==
  /\ Exported
  /\ \E k \in 1..Len(IR) :
       /\ HasKeyedOption(IR[k])
       /\ IR[k].options[1].letter # IR[k].correctAnswer.letter
       /\ FilesOf(k) # {}

\* C6 (as stated): the item of an MC-single entry whose correct answer is the
\* letter of one of its options has exactly one full-score condition, and the
\* identifier it tests is that of exactly one emitted choice.
C6_FullScoreBindsOneChoice ==
  Exported =>
    \A k \in 1..Len(IR) :
       HasKeyedOption(IR[k]) =>
         /\ FilesOf(k) # {}
         /\ \A f \in FilesOf(k) :
              LET item  == itemFiles[f].xml
                  ident == ChoiceIdent(IR[k].correctAnswer.letter)
              IN  /\ OnlyFullScoreIs(item, ident)
                  /\ Cardinality({ j \in 1..Len(item.choices) : item.choices[j] = ident }) = 1

\* the lines parseAnswerKey reads: the blocks after the first header
AnswerLines == (Boundary + 1)..Len(doc)
\* the text parseAnswerKey reads from block k, cleaned
CleanLine(k) == cleanAnswerKeyText(Trim(doc[k].text))
\* line k is a number, white space and a payload that starts with no separator
NoSeparatorLine(k) ==
  LET s == CleanLine(k)
      b == SkipDigits(s, 1)
      c == SkipSpaces(s, b)
  IN  b > 1 /\ c > b /\ c <= Len(s) /\ s[c] \notin {".", ")", "-"}
\* the number and the first character of the payload of such a line
LineNumber(k) == ParseInt(SubSeq(CleanLine(k), 1, SkipDigits(CleanLine(k), 1) - 1))
LinePayload(k) == CleanLine(k)[SkipSpaces(CleanLine(k), SkipDigits(CleanLine(k), 1))]
\* line k is such a line for an MC-single question, and the only line of its number
UnseparatedMCLine(k) ==
  /\ NoSeparatorLine(k)
  /\ MapHas(questionTypes, LineNumber(k))
  /\ questionTypes[LineNumber(k)] = MULTIPLE_CHOICE_SINGLE
  /\ \A j \in AnswerLines \ {k} :
       LET other == parseAnswerLine(Trim(doc[j].text), questionTypes)
       IN  ~(other.ok /\ other.number = LineNumber(k))
\* the MC-single entries of a number
MCEntries(n) ==
  { e \in 1..Len(IR) : IR[e].number = n /\ IR[e].type = MULTIPLE_CHOICE_SINGLE }

\* C7: an answer line "number payload" without separator yields no answer for
\* an MC-single question: the answer map has no record of the number, the
\* entries of that number carry a null answer, the export succeeds and the
\* item of each has one full-score condition, which binds its first choice.
C7_UnseparatedLineIsSkipped ==
  pc \in {"combine", "export", "returned"} =>
  \A k \in AnswerLines :
     UnseparatedMCLine(k) =>
       /\ ~MapHas(answerMap, LineNumber(k))
       /\ \A e \in MCEntries(LineNumber(k)) : IR[e].correctAnswer = NullAnswer
       /\ pc = "returned" =>
            /\ result = "success"
            /\ \A e \in MCEntries(LineNumber(k)) :
                 /\ FilesOf(e) # {}
                 /\ \A f \in FilesOf(e) :
                      OnlyFullScoreIs(itemFiles[f].xml, itemFiles[f].xml.choices[1])
                 /\ \A f \in FilesOf(e) :
                      itemFiles[f].xml.choices[1] = ChoiceIdent(combinedData[e].options[1].letter)

\* C7 reached: the export is over for an MC-single entry whose unseparated
\* answer line names its second option
C7_Witness ==
  /\ Exported
  /\ \E k \in AnswerLines :
       /\ UnseparatedMCLine(k)
       /\ \E e \in MCEntries(LineNumber(k)) :
            /\ Len(IR[e].options) >= 2
            /\ IR[e].options[2].letter = UpperChar(LinePayload(k))
            /\ FilesOf(e) # {}

\* a text with every image id replaced by one mark
MaskText(s) == [k \in 1..Len(s) |-> IF s[k] \in Range(UuidChars) THEN "u" ELSE s[k]]
MaskImages(images) == [k \in 1..Len(images) |-> [images[k] EXCEPT !.id = "u"]]
MaskOptions(options) ==
  [k \in 1..Len(options) |->
     [options[k] EXCEPT !.text = MaskText(@), !.images = MaskImages(@)]]
\* what the parsers returned, image ids apart
Masked(p) ==
  [p EXCEPT !.questions =
     [k \in 1..Len(p.questions) |->
        [p.questions[k] EXCEPT !.text = MaskText(@), !.images = MaskImages(@),
                               !.options = MaskOptions(@)]]]

\* C8: the second run of parseQuestions and parseAnswerKey over the unchanged
\* document returns the drafts (numbers, stems, option letters and texts,
\* types), the type map and the answers of the first run, whatever the type
\* map held when the second run started; only the image ids may differ.
C8_RerunReturnsTheSame ==
  (run = 2 /\ pc \in {"combine", "export", "returned"}) => Masked(Parsed) = Masked(firstRun)

\* C8 reached: the second conversion is over, it decoded an answer, and its
\* drafts differ from those of the first in their image ids
C8_Witness ==
  /\ run = 2
  /\ Exported
  /\ answerMap # EmptyMap
  /\ pq.questions # firstRun.questions

\* the tokens of the payload of an answer line: its pieces between commas,
\* semicolons and white space
KeyTokens(payload) == TrimAll(Split(payload, {",", ";", " "}))
\* line k is the last answer line of number n
LastLineOf(k, n) ==
  /\ answerLineMatch(CleanLine(k)).ok
  /\ answerLineMatch(CleanLine(k)).number = n
  /\ \A j \in AnswerLines : j > k => ~(answerLineMatch(CleanLine(j)).ok
                                        /\ answerLineMatch(CleanLine(j)).number = n)
\* every token is the letter of an option
AllOptionLetters(tokens, options) ==
  /\ tokens # <<>>
  /\ \A j \in 1..Len(tokens) : Len(tokens[j]) = 1 /\ tokens[j][1] \in optionLetters(options)

\* C9: for an ORDERING entry whose answer-line tokens are all letters of its
\* options, the answer is the list of the tokens in the order of the line, and
\* the only full-score condition of its item requires the choice identifiers
\* of the tokens in that order, whatever the order of the options.
C9_OrderingFollowsKeyOrder ==
  Exported =>
    \A e \in 1..Len(IR) : \A k \in AnswerLines :
       LET tokens == KeyTokens(answerLineMatch(CleanLine(k)).rest)
       IN  (/\ IR[e].type = ORDERING
            /\ LastLineOf(k, IR[e].number)
            /\ AllOptionLetters(tokens, IR[e].options)) =>
             /\ IR[e].correctAnswer = StringsAnswer(tokens)
             /\ FilesOf(e) # {}
             /\ \A f \in FilesOf(e) :
                  itemFiles[f].xml.full =
                    << Condition("varequal",
                                 << [j \in 1..Len(tokens) |-> ChoiceIdent(tokens[j][1])] >>) >>

\* C10: a draft whose stem has no type keyword (and no blank) and whose options
\* have exactly the letters T and F is returned with type TRUE_FALSE, and the
\* type map holds TRUE_FALSE for its number, whatever the order of the options.
C10_TrueFalseFromOptions ==
  QuestionsReturned =>
    \A k \in 1..Len(pq.questions) :
       LET q == pq.questions[k]
       IN  (/\ inferQuestionType(q.text, <<>>) = SHORT_ANSWER
            /\ optionLetters(q.options) = {"T", "F"}) =>
             /\ q.type = TRUE_FALSE
             /\ questionTypes[q.number] = TRUE_FALSE

\* the stem holds no type keyword and no blank
PlainStem(text) == inferQuestionType(text, <<>>) = SHORT_ANSWER

\* C11 (as amended): a draft whose stem has no type keyword is finalized as
\* SHORT_ANSWER when it has no option and as MULTIPLE_CHOICE_SINGLE when it
\* has exactly one option; it is MULTIPLE_CHOICE_SINGLE only if it has at
\* least one option.
C11_OneOptionMakesMultipleChoice ==
  QuestionsReturned =>
    \A k \in 1..Len(pq.questions) :
       LET q == pq.questions[k]
       IN  PlainStem(q.text) =>
             /\ Len(q.options) = 0 => q.type = SHORT_ANSWER
             /\ Len(q.options) = 1 => q.type = MULTIPLE_CHOICE_SINGLE
             /\ q.type = MULTIPLE_CHOICE_SINGLE => Len(q.options) >= 1

\* C11 reached: a draft without keyword is returned with exactly one option
C11_Witness ==
  /\ QuestionsReturned
  /\ \E k \in 1..Len(pq.questions) :
       /\ PlainStem(pq.questions[k].text)
       /\ Len(pq.questions[k].options) = 1
       /\ pq.questions[k].type = MULTIPLE_CHOICE_SINGLE

\* C11 (as stated): a draft whose stem has no type keyword is finalized as
\* MULTIPLE_CHOICE_SINGLE only if it has at least two options; with no option
\* or exactly one option it is finalized as SHORT_ANSWER.
C11_TwoOptionsMakeMultipleChoice ==
  QuestionsReturned =>
    \A k \in 1..Len(pq.questions) :
       LET q == pq.questions[k]
       IN  PlainStem(q.text) =>
             /\ q.type = MULTIPLE_CHOICE_SINGLE => Len(q.options) >= 2
             /\ Len(q.options) <= 1 => q.type = SHORT_ANSWER

\* the stem holds a blank and no true/false, matching or ordering keyword
BlankStem(text) == inferQuestionType(text, <<>>) = FILL_IN_BLANK_TEXT

\* C12: a draft whose stem holds a run of underscores and no true/false,
\* matching or ordering keyword is finalized as FILL_IN_BLANK_TEXT, and the
\* type map holds FILL_IN_BLANK_TEXT for its number, however many options
\* were appended to it.
C12_BlankStaysFillInBlank ==
  QuestionsReturned =>
    \A k \in 1..Len(pq.questions) :
       LET q == pq.questions[k]
       IN  BlankStem(q.text) =>
             /\ q.type = FILL_IN_BLANK_TEXT
             /\ questionTypes[q.number] = FILL_IN_BLANK_TEXT

(***************************************************************************)
(* combineQuestionsAndAnswers with a list of answer objects (the earlier   *)
(* Code.gs)                                                                *)
(***************************************************************************)
\* the value of a property an object does not have; question numbers are >= 0
Undefined == 0 - 1
\* ans.questionNumber || ans.number: 0 and undefined are falsy
AnswerKeyOf(ans) ==
  IF ans.questionNumber # Undefined /\ ans.questionNumber # 0
  THEN ans.questionNumber
  ELSE ans.number
\* the earlier combineQuestionsAndAnswers(questions, answers): the answers are
\* grouped by key in their input order, then attached to the questions
combineQuestionsAndAnswersArray(questions, answers) ==
  [k \in 1..Len(questions) |->
     LET OfQuestion(ans) == AnswerKeyOf(ans) = questions[k].number
     IN  [number |-> questions[k].number,
          text |-> questions[k].text,
          correctAnswers |-> SelectSeq(answers, OfQuestion)]]

\* the multiple-choice member of the earlier QUESTION_TYPES (Constants.gs)
MULTIPLE_CHOICE == "multiple_choice"
\* QTI_writeBody(q, ...) of the earlier QTI backend: the interaction and the
\* identifiers `choice_${i + 1}` of its choices, padded to two
QTI_writeBody(q) ==
  LET NumberedChoice(i) == <<"c","h","o","i","c","e","_">> \o Numeral(i)
      original == [i \in 1..Len(q.options) |-> NumberedChoice(i)]
      atLeastOne == IF Len(original) = 0 THEN <<NumberedChoice(1)>> ELSE original
      choices == IF Len(atLeastOne) < 2
                 THEN Append(atLeastOne, NumberedChoice(Len(atLeastOne) + 1))
                 ELSE atLeastOne
  IN  IF q.type \in {MULTIPLE_CHOICE, TRUE_FALSE}
      THEN [interaction |-> "choiceInteraction", choices |-> choices]
      ELSE [interaction |-> "textEntryInteraction", choices |-> <<>>]

\* Moodle_createQuizXML(title, qs, imageMap): one multichoice question per
\* entry, with the fraction of each of its answers; option i (from 0) has
\* fraction 100 when i === q.correctAnswerIndex
Moodle_createQuizXML(qs) ==
  [k \in 1..Len(qs) |->
     [name |-> k,
      fractions |-> [i \in 1..Len(qs[k].options) |->
                       IF qs[k].correctAnswerIndex # Undefined /\ i - 1 = qs[k].correctAnswerIndex
                       THEN 100 ELSE 0]]]

(***************************************************************************)
(* Functions called on their own, with arguments from bounded sets         *)
(***************************************************************************)
\* the longest stem, answer key, answer list and question list of a call
MaxStemWords == 3
MaxAnswerLines == 2
MaxAnswers == 2
MaxQuestions == 2

\* the words of the stems: "true", "false", "order", "x"
StemWords ==
  { <<"t", "r", "u", "e">>, <<"f", "a", "l", "s", "e">>, <<"o", "r", "d", "e", "r">>, <<"x">> }
\* words.join(' ')
RECURSIVE JoinWords(_)
JoinWords(words) ==
  IF words = <<>> THEN <<>>
  ELSE IF Len(words) = 1 THEN words[1]
  ELSE words[1] \o <<" ">> \o JoinWords(Tail(words))
Stems == { JoinWords(w) : w \in SeqsUpTo(StemWords, MaxStemWords) \ { <<>> } }
\* an option with a letter
Option(letter) == [letter |-> letter, text |-> <<"x">>, images |-> <<>>]
OptionLists ==
  { <<>>, <<Option("A")>>, <<Option("A"), Option("B")>>, <<Option("T"), Option("F")>> }

\* the types parseQuestions can write into questionTypes
InferredTypes ==
  { TRUE_FALSE, MATCHING, ORDERING, FILL_IN_BLANK_TEXT, MULTIPLE_CHOICE_SINGLE, SHORT_ANSWER }
\* the lines of an answer key: "1. A", "1. True", "1. b", "1. 7", "1. ,",
\* "1. x, y", "2. a"
KeyLines ==
  { Text(<<"1", ".", " ", "A">>),
    Text(<<"1", ".", " ", "T", "r", "u", "e">>),
    Text(<<"1", ".", " ", "b">>),
    Text(<<"1", ".", " ", "7">>),
    Text(<<"1", ".", " ", ",">>),
    Text(<<"1", ".", " ", "x", ",", " ", "y">>),
    Text(<<"2", ".", " ", "a">>) }
\* a body that is an answer key: the header "Answer Key", then the lines
KeyBodies ==
  { <<Text(<<"A", "n", "s", "w", "e", "r", " ", "K", "e", "y">>)>> \o lines :
      lines \in SeqsUpTo(KeyLines, MaxAnswerLines) }

\* the questions and the answer objects of the earlier combineQuestionsAndAnswers
QuestionNumbers == {0, 1, 2}
SampleQuestions ==
  SeqsUpTo({ [number |-> n, text |-> <<"Q">>] : n \in QuestionNumbers }, MaxQuestions)
SampleAnswers ==
  SeqsUpTo({ [questionNumber |-> n, number |-> Undefined, answer |-> a] :
               n \in QuestionNumbers, a \in {"A", "B"} }, MaxAnswers)

\* the answers of an entry of the intermediate representation
EntryAnswers ==
  { NullAnswer, LetterAnswer("A"), LetterAnswer("C"),
    StringsAnswer(<<>>), StringsAnswer(<< <<"A">> >>), StringsAnswer(<< <<"B">>, <<"A">> >>),
    NumberAnswer([int |-> 7, frac |-> <<>>]),
    PairsAnswer(<< [premise |-> <<"A">>, response |-> <<"1">>] >>),
    \* what parseAnswerLine makes of the payloads "b, a" and "a=1"
    DecodeAnswer(ORDERING, 1, <<"b", ",", " ", "a">>).answer,
    DecodeAnswer(MATCHING, 1, <<"a", "=", "1">>).answer }
\* the entries: every type, with zero to two options and each answer
Entries ==
  { [number |-> 1, type |-> t, text |-> <<"Q">>, options |-> o, images |-> <<>>,
     hasImages |-> FALSE, correctAnswer |-> a] :
      t \in QUESTION_TYPES, o \in OptionLists, a \in EntryAnswers }

\* the questions handed to the Moodle backend: zero to two options, and a
\* correctAnswerIndex that is missing, in range or out of range
MoodleQuestions ==
  { [options |-> o, correctAnswerIndex |-> c, hasImages |-> FALSE] :
      o \in OptionLists, c \in {Undefined, 0, 1, 2} }

\* the entries handed to the package step on its own: essay questions whose
\* number is any natural number up to MaxQuestions, 0 included
PackageEntries ==
  { [number |-> n, type |-> ESSAY, text |-> <<"Q">>, options |-> <<>>, images |-> <<>>,
     hasImages |-> FALSE, correctAnswer |-> NullAnswer] : n \in 0..MaxQuestions }

(***************************************************************************)
(* The images of a package (QTIExport.gs, Utilities.gs)                    *)
(***************************************************************************)
\* the most images of a package
MaxImages == 2

\* a file name "<base>_<c1>_<c2>....png": its base and the counters appended to it
Filename(base, suffix) == [base |-> base, suffix |-> suffix]
NoFilename == Filename("", <<>>)

\* `${nameParts.join('.')}_${counter}.${ext}`
Rename(finalFilename, counter) ==
  [finalFilename EXCEPT !.suffix = Append(@, counter)]

\* the loop `while (seenFilenames.has(finalFilename))` of QTI_processAndCopyImages
RECURSIVE UniqueFilename(_, _, _)
UniqueFilename(finalFilename, counter, seenFilenames) ==
  IF finalFilename \in seenFilenames
  THEN UniqueFilename(Rename(finalFilename, counter), counter + 1, seenFilenames)
  ELSE finalFilename

\* the forEach of QTI_processAndCopyImages from index k on; failing holds the
\* indexes of the images whose copy to the Drive throws; acc is the map from
\* image id to final file name, the names seen and the files created so far
RECURSIVE CopyImages(_, _, _, _)
CopyImages(allImages, failing, k, acc) ==
  IF k > Len(allImages) THEN acc
  ELSE LET imgMeta == allImages[k]
           finalFilename == UniqueFilename(imgMeta.filename, 1, acc.seenFilenames)
       IN  IF ~imgMeta.blob \/ imgMeta.filename = NoFilename
           THEN CopyImages(allImages, failing, k + 1, acc)
           ELSE IF k \in failing
           THEN CopyImages(allImages, failing, k + 1, acc)
           ELSE CopyImages(allImages, failing, k + 1,
                  [imageFilenameMap |-> MapSet(acc.imageFilenameMap, imgMeta.id, finalFilename),
                   seenFilenames |-> acc.seenFilenames \cup {finalFilename},
                   files |-> Append(acc.files, finalFilename)])

\* QTI_processAndCopyImages(allImages, resourcesFolder)
QTI_processAndCopyImages(allImages, failing) ==
  CopyImages(allImages, failing, 1,
             [imageFilenameMap |-> EmptyMap, seenFilenames |-> {}, files |-> <<>>])

\* replaceImagePlaceholdersWithHtml(text, questionImages), the text being given
\* by the image ids of its placeholders, in order: a placeholder whose id has
\* metadata with a file name becomes an img element with that file name as its
\* source (src is "resources/" and the name), any other is left as it is
replaceImagePlaceholdersWithHtml(placeholders, questionImages) ==
  LET Known(imageId) == \E k \in 1..Len(questionImages) : questionImages[k].id = imageId
      \* imageMetaMap.set(img.id, img): the last metadata of an id
      imageMeta(imageId) ==
        questionImages[CHOOSE k \in 1..Len(questionImages) :
                         /\ questionImages[k].id = imageId
                         /\ \A j \in (k + 1)..Len(questionImages) : questionImages[j].id # imageId]
  IN  [p \in 1..Len(placeholders) |->
         IF Known(placeholders[p]) /\ imageMeta(placeholders[p]).filename # NoFilename
         THEN [placeholder |-> placeholders[p], img |-> TRUE,
               src |-> imageMeta(placeholders[p]).filename]
         ELSE [placeholder |-> placeholders[p], img |-> FALSE, src |-> NoFilename]]

\* the images of a package and the item document of the question that holds
\* them all: the resource files, the image resources of the manifest and the
\* img elements of the item
PackageImages(allImages, failing) ==
  LET copied == QTI_processAndCopyImages(allImages, failing)
  IN  [files |-> copied.files,
       manifest |-> QTI_createManifestXML(<<>>, copied.imageFilenameMap).images,
       body |-> replaceImagePlaceholdersWithHtml([k \in 1..Len(allImages) |-> allImages[k].id],
                                                 allImages)]

\* the file names parseQuestions may give the images
ImageFilenames == { Filename("a", <<>>), Filename("a", <<1>>), Filename("b", <<>>) }

\* the images of a document: the k-th has the k-th id minted
ImageLists ==
  UNION { { [k \in 1..n |-> [id |-> UuidChars[k], filename |-> f[k], blob |-> TRUE]] :
              f \in [1..n -> ImageFilenames] } : n \in 0..MaxImages }

(***************************************************************************)
(* The resource blobs of the Moodle and Blackboard packages                *)
(***************************************************************************)
\* the most files of a resources folder
MaxFiles == 3

\* the resources folders: the k-th file has the k-th name and the k-th content
Folders ==
  { [k \in 1..n |-> [name |-> <<"n", k>>, content |-> <<"c", k>>]] : n \in 0..MaxFiles }

\* f.getBlob().setName(prefix + '/' + name)
Blob(content, prefix, name) == [content |-> content, name |-> <<prefix, "/", name>>]

\* BB_pushBlobs(arr, folder, prefix) from the k-th file on: one it.next() per
\* iteration, the blob and the name are those of the same file
RECURSIVE BB_pushBlobs(_, _, _, _)
BB_pushBlobs(arr, folder, prefix, k) ==
  IF k > Len(folder) THEN [status |-> "returned", arr |-> arr]
  ELSE BB_pushBlobs(Append(arr, Blob(folder[k].content, prefix, folder[k].name)),
                    folder, prefix, k + 1)

\* Moodle_pushBlobs(arr, folder, prefix) from the k-th file on: two it.next()
\* per iteration, the first gives the blob and the second the name; the second
\* throws when the iterator is exhausted
RECURSIVE Moodle_pushBlobs(_, _, _, _)
Moodle_pushBlobs(arr, folder, prefix, k) ==
  IF k > Len(folder) THEN [status |-> "returned", arr |-> arr]
  ELSE IF k + 1 > Len(folder) THEN [status |-> "thrown", arr |-> arr]
  ELSE Moodle_pushBlobs(Append(arr, Blob(folder[k].content, prefix, folder[k + 1].name)),
                        folder, prefix, k + 2)

\* the calls
Calls ==
  { [fn |-> "inferQuestionType", text |-> t, options |-> o, done |-> FALSE, ret |-> <<>>] :
      t \in Stems, o \in OptionLists }
  \cup
  { [fn |-> "parseAnswerKey", body |-> b, types |-> MapSet(MapSet(EmptyMap, 1, t), 2, SHORT_ANSWER),
     done |-> FALSE, ret |-> EmptyMap] :
      b \in KeyBodies, t \in InferredTypes }
  \cup
  { [fn |-> "combineQuestionsAndAnswers", questions |-> q, answers |-> a,
     done |-> FALSE, ret |-> <<>>] :
      q \in SampleQuestions, a \in SampleAnswers }
  \cup
  { [fn |-> "QTI_createItemXML", question |-> q, done |-> FALSE,
     ret |-> [item |-> NoItem, q |-> q]] : q \in Entries }
  \cup
  { [fn |-> "QTI_writeBody", q |-> [type |-> t, options |-> o], done |-> FALSE,
     ret |-> [interaction |-> "", choices |-> <<>>]] :
      t \in {MULTIPLE_CHOICE, TRUE_FALSE, SHORT_ANSWER}, o \in OptionLists }
  \cup
  { [fn |-> "Moodle_createQuizXML", qs |-> qs, done |-> FALSE, ret |-> <<>>] :
      qs \in SeqsUpTo(MoodleQuestions, MaxQuestions) }
  \cup
  { [fn |-> "QTIExport_createQTIPackage", questionsData |-> qs, done |-> FALSE,
     ret |-> [files |-> <<>>, itemIdentifiers |-> <<>>, questionsData |-> <<>>]] :
      qs \in SeqsUpTo(PackageEntries, MaxQuestions) }
  \cup
  UNION { { [fn |-> "QTI_processAndCopyImages", allImages |-> imgs, failing |-> failing,
             done |-> FALSE, ret |-> [files |-> <<>>, manifest |-> {}, body |-> <<>>]] :
              failing \in SUBSET (1..Len(imgs)) } : imgs \in ImageLists }
  \cup
  { [fn |-> "Moodle_pushBlobs", folder |-> f, done |-> FALSE,
     ret |-> [status |-> "none", arr |-> <<>>]] : f \in Folders }

InitCalls ==
  /\ doc = <<>>
  /\ pc = "idle"
  /\ minted = 0
  /\ pq = InitialLocals
  /\ questionTypes = EmptyMap
  /\ answerMap = EmptyMap
  /\ combinedData = <<>>
  /\ itemFiles = <<>>
  /\ itemIdentifiers = <<>>
  /\ exportInvoked = FALSE
  /\ result = "none"
  /\ run = 1
  /\ firstRun = NothingParsed
  /\ call \in Calls
  /\ scriptProperties = NoProperties
  /\ driveFiles = <<>>
  /\ download = NoDownload

\* the variables of a conversion, which a call on its own leaves alone
conversion ==
  <<doc, pc, minted, pq, questionTypes, answerMap, combinedData, itemFiles,
    itemIdentifiers, exportInvoked, result, run, firstRun,
    scriptProperties, driveFiles, download>>

CallInferQuestionType ==
  /\ call.fn = "inferQuestionType" /\ ~call.done
  /\ call' = [call EXCEPT !.done = TRUE, !.ret = inferQuestionType(call.text, call.options)]
  /\ UNCHANGED conversion

CallParseAnswerKey ==
  /\ call.fn = "parseAnswerKey" /\ ~call.done
  /\ call' = [call EXCEPT !.done = TRUE, !.ret = parseAnswerKey(call.body, call.types)]
  /\ UNCHANGED conversion

CallCombineQuestionsAndAnswers ==
  /\ call.fn = "combineQuestionsAndAnswers" /\ ~call.done
  /\ call' = [call EXCEPT !.done = TRUE,
                          !.ret = combineQuestionsAndAnswersArray(call.questions, call.answers)]
  /\ UNCHANGED conversion

CallCreateItemXML ==
  /\ call.fn = "QTI_createItemXML" /\ ~call.done
  /\ call' = [call EXCEPT !.done = TRUE, !.ret = QTI_createItemXML(call.question)]
  /\ UNCHANGED conversion

CallWriteBody ==
  /\ call.fn = "QTI_writeBody" /\ ~call.done
  /\ call' = [call EXCEPT !.done = TRUE, !.ret = QTI_writeBody(call.q)]
  /\ UNCHANGED conversion

CallMoodleCreateQuizXML ==
  /\ call.fn = "Moodle_createQuizXML" /\ ~call.done
  /\ call' = [call EXCEPT !.done = TRUE, !.ret = Moodle_createQuizXML(call.qs)]
  /\ UNCHANGED conversion

CallGenerateItems ==
  /\ call.fn = "QTIExport_createQTIPackage" /\ ~call.done
  /\ call' = [call EXCEPT !.done = TRUE, !.ret = GenerateItems(call.questionsData, 1)]
  /\ UNCHANGED conversion

CallProcessAndCopyImages ==
  /\ call.fn = "QTI_processAndCopyImages" /\ ~call.done
  /\ call' = [call EXCEPT !.done = TRUE, !.ret = PackageImages(call.allImages, call.failing)]
  /\ UNCHANGED conversion

CallMoodlePushBlobs ==
  /\ call.fn = "Moodle_pushBlobs" /\ ~call.done
  /\ call' = [call EXCEPT !.done = TRUE,
                          !.ret = Moodle_pushBlobs(<<>>, call.folder, "resources", 1)]
  /\ UNCHANGED conversion

NextCalls ==
  \/ CallInferQuestionType
  \/ CallParseAnswerKey
  \/ CallCombineQuestionsAndAnswers
  \/ CallCreateItemXML
  \/ CallWriteBody
  \/ CallMoodleCreateQuizXML
  \/ CallGenerateItems
  \/ CallProcessAndCopyImages
  \/ CallMoodlePushBlobs

SpecCalls == InitCalls /\ [][NextCalls]_vars

\* the call of fn has returned
Returned(fn) == call.fn = fn /\ call.done

\* C13: inferQuestionType returns TRUE_FALSE for every stem that holds the
\* word "true" and the word "false", in either order, whatever other keywords
\* the stem holds and whatever options are passed.
C13_BothWordsGiveTrueFalse ==
  Returned("inferQuestionType") =>
    (HasWord(ToUpperCase(call.text), W_TRUE) /\ HasWord(ToUpperCase(call.text), W_FALSE)
       => call.ret = TRUE_FALSE)

\* the lines of the answer key of a parseAnswerKey call: the blocks after the header
CallLines == 2..Len(call.body)
\* the cleaned text, the number and the payload of line k of the call
CallLine(k) == cleanAnswerKeyText(Trim(call.body[k].text))
CallNumber(k) == ParseInt(SubSeq(CallLine(k), 1, SkipDigits(CallLine(k), 1) - 1))
CallPayload(k) ==
  LET s == CallLine(k)
      c == SkipSpaces(s, SkipDigits(s, 1))
  IN  Trim(From(s, c + 1))
\* line k is the only line of the call with its number
OnlyLineOfNumber(k) == \A j \in CallLines \ {k} : CallNumber(j) # CallNumber(k)

\* C14: for a question typed MC-single or TRUE_FALSE, a line whose payload
\* starts with a letter (the words "True" and "False" included) yields the
\* record of that letter in upper case, and a payload that starts with no
\* letter yields no record.
C14_FirstLetterIsTheAnswer ==
  Returned("parseAnswerKey") =>
    \A k \in CallLines :
       (/\ OnlyLineOfNumber(k)
        /\ call.types[CallNumber(k)] \in {MULTIPLE_CHOICE_SINGLE, TRUE_FALSE}) =>
          IF CallPayload(k) # <<>> /\ IsLetter(CallPayload(k)[1])
          THEN /\ MapHas(call.ret, CallNumber(k))
               /\ call.ret[CallNumber(k)] = LetterAnswer(UpperChar(CallPayload(k)[1]))
          ELSE ~MapHas(call.ret, CallNumber(k))

\* the numbers of the lines of the call, and the last line of number n
CallNumbers == { CallNumber(k) : k \in CallLines }
CallLastLine(n) == CHOOSE k \in CallLines :
                     CallNumber(k) = n /\ \A j \in CallLines : CallNumber(j) = n => j <= k
\* the literals a payload leaves: its pieces between commas and semicolons that
\* hold something else than white space
Literals(payload) ==
  LET pieces == Split(payload, {",", ";"})
      HoldsText(piece) == \E j \in 1..Len(piece) : ~IsSpace(piece[j])
  IN  SelectSeq(pieces, HoldsText)
TextTypes == {FILL_IN_BLANK_TEXT, SHORT_ANSWER, ESSAY}
\* every literal of the list is non-empty and trimmed
LiteralsTrimmed(list) ==
  \A j \in 1..Len(list) : list[j] # <<>> /\ Trim(list[j]) = list[j]

CallParsed(k) == parseAnswerLine(Trim(call.body[k].text), call.types)
\* the lines of number n, and those of them that yield a record
CallLinesOf(n) == { k \in CallLines : CallNumber(k) = n }
CallRecordsOf(n) == { k \in CallLinesOf(n) : CallParsed(k).ok }
Last(ks) == CHOOSE k \in ks : \A j \in ks : j <= k

\* C16 (as the code has it): when several answer-key lines carry the same
\* number, the answer map holds the decoding of the last of them that yields a
\* record, and no entry when none does; a later line that yields no record
\* leaves the entry of an earlier line in place.
C16_LastRecordWins ==
  Returned("parseAnswerKey") =>
    \A n \in CallNumbers :
       Cardinality(CallLinesOf(n)) > 1 =>
         IF CallRecordsOf(n) = {} THEN ~MapHas(call.ret, n)
         ELSE /\ MapHas(call.ret, n)
              /\ call.ret[n] = CallParsed(Last(CallRecordsOf(n))).answer

\* two lines of number 1 yield different records, and the map holds the second
C16_Witness ==
  /\ Returned("parseAnswerKey")
  /\ Len(call.body) = 3
  /\ CallLinesOf(1) = {2, 3}
  /\ CallRecordsOf(1) = {2, 3}
  /\ CallParsed(2).answer # CallParsed(3).answer
  /\ MapHas(call.ret, 1)
  /\ call.ret[1] = CallParsed(3).answer

\* C16 (as stated): when several answer-key lines carry the same number, the
\* answer map holds exactly one entry for it, the decoding of the last such
\* line in document order.
C16_LastLineWins ==
  Returned("parseAnswerKey") =>
    \A n \in CallNumbers :
       Cardinality(CallLinesOf(n)) > 1 =>
         /\ MapHas(call.ret, n)
         /\ CallParsed(Last(CallLinesOf(n))).ok
         /\ call.ret[n] = CallParsed(Last(CallLinesOf(n))).answer

\* C17: combineQuestionsAndAnswers(questions, answerMap) returns one entry per
\* draft, in the order of the drafts and with the drafts' own numbers and
\* fields; the correctAnswer of an entry is the value of the answer map for its
\* number, or null when the map has none; the drafts and the answer map are
\* left as they were.
C17_CombineAttachesByNumber ==
  [][pc = "combine" =>
       /\ pq'.questions = pq.questions
       /\ answerMap' = answerMap
       /\ Len(combinedData') = Len(pq.questions)
       /\ \A k \in 1..Len(pq.questions) :
            /\ \A f \in DOMAIN pq.questions[k] :
                 combinedData'[k][f] = pq.questions[k][f]
            /\ combinedData'[k].correctAnswer =
                 (IF MapHas(answerMap, pq.questions[k].number)
                  THEN answerMap[pq.questions[k].number]
                  ELSE NullAnswer)]_vars

\* combined: two drafts whose numbers are not their positions, the first with
\* the answer of its number and the second with none
C17_Witness ==
  /\ pc = "export"
  /\ Len(combinedData) = 2
  /\ Len(pq.questions) = 2
  /\ combinedData[1].number = 2
  /\ combinedData[2].number = 1
  /\ MapHas(answerMap, 2) /\ ~MapHas(answerMap, 1)
  /\ combinedData[1].correctAnswer = answerMap[2]
  /\ combinedData[2].correctAnswer = NullAnswer

\* C18: the earlier combineQuestionsAndAnswers, called with a list of answer
\* objects, returns one entry per question in the order of the questions, and
\* the correctAnswers of an entry is the sub-list of the answers whose
\* questionNumber is the number of the question, in their input order (empty
\* when there is none).
C18_AnswersGroupedByQuestionNumber ==
  Returned("combineQuestionsAndAnswers") =>
    /\ Len(call.ret) = Len(call.questions)
    /\ \A k \in 1..Len(call.questions) :
         LET HasNumber(ans) == ans.questionNumber = call.questions[k].number
         IN  /\ call.ret[k].number = call.questions[k].number
             /\ call.ret[k].text = call.questions[k].text
             /\ call.ret[k].correctAnswers = SelectSeq(call.answers, HasNumber)

\* the types whose generators make an item of whatever they are given
AlwaysGenerated ==
  { MULTIPLE_CHOICE_SINGLE, TRUE_FALSE, FILL_IN_BLANK_TEXT, SHORT_ANSWER,
    FILL_IN_BLANK_NUMERIC, ESSAY }

\* C19 (as the code has it): QTI_createItemXML returns an item for every entry
\* of a single-choice, true/false, fill-in-blank, short answer, numeric or
\* essay question, whatever its answer; for a matching or ordering entry
\* without options or without an answer, and for every multiple-response
\* entry, it returns null, so there can be fewer items than entries.
C19_ItemUnlessMatchingOrOrdering ==
  Returned("QTI_createItemXML") =>
    /\ call.question.type \in AlwaysGenerated => call.ret.item.made
    /\ (/\ call.question.type \in {MATCHING, ORDERING}
        /\ \/ call.question.correctAnswer = NullAnswer
           \/ ArrayLength(call.question.correctAnswer) = 0
           \/ call.question.options = <<>>) => ~call.ret.item.made
    /\ call.question.type = MULTIPLE_CHOICE_MULTI => ~call.ret.item.made

\* the call for an ordering entry with two options and no answer has returned
\* null
C19_Witness ==
  /\ Returned("QTI_createItemXML")
  /\ call.question.type = ORDERING
  /\ Len(call.question.options) = 2
  /\ call.question.correctAnswer = NullAnswer
  /\ call.ret.item = NoItem

\* C19 (as stated): for every entry whose answer is null or incomplete,
\* whatever its type, QTI_createItemXML returns an item, never null.
C19_AlwaysAnItem ==
  (/\ Returned("QTI_createItemXML")
   /\ \/ call.question.correctAnswer = NullAnswer
      \/ (IsArray(call.question.correctAnswer) /\ ArrayLength(call.question.correctAnswer) = 0))
    => call.ret.item.made

\* the single-choice types of the two generations of QUESTION_TYPES
SingleChoiceTypes == {MULTIPLE_CHOICE_SINGLE, MULTIPLE_CHOICE, TRUE_FALSE}

\* C20: every single-choice (MC-single or true/false) item a backend emits
\* holds at least two choices, also when the entry has no option or exactly
\* one option.
C20_AtLeastTwoChoices ==
  /\ (/\ Returned("QTI_createItemXML")
      /\ call.question.type \in SingleChoiceTypes
      /\ call.ret.item.made) => Len(call.ret.item.choices) >= 2
  /\ (/\ Returned("QTI_writeBody")
      /\ call.q.type \in SingleChoiceTypes) => Len(call.ret.choices) >= 2

\* the item numbers of the files written, in the order of the package
WrittenIdentifiers == [f \in 1..Len(itemFiles) |-> itemFiles[f].itemNumber]
\* the entries for which no item file was written
FailedEntries == { k \in 1..Len(combinedData) : FilesOf(k) = {} }

\* C21: when the generation of an item fails or yields nothing, the package is
\* still created with success, and the item identifiers that assessment.xml and
\* imsmanifest.xml reference are those of the items whose file was written, in
\* document order; the failed item is in neither.
C21_ReferencesAreWrittenItems ==
  (pc = "returned" /\ exportInvoked) =>
    /\ result = "success"
    /\ Len(itemFiles) = Len(combinedData) - Cardinality(FailedEntries)
    /\ \A f, g \in 1..Len(itemFiles) : f < g => itemFiles[f].index < itemFiles[g].index
    /\ [k \in 1..Len(itemIdentifiers) |->
          QTI_createAssessmentXML(itemIdentifiers)[k].identifier] = WrittenIdentifiers
    /\ [k \in 1..Len(itemIdentifiers) |->
          QTI_createAssessmentXML(itemIdentifiers)[k].href] = WrittenIdentifiers
    /\ [k \in 1..Len(itemIdentifiers) |->
          QTI_createManifestXML(itemIdentifiers, EmptyMap).items[k].href] = WrittenIdentifiers
    /\ QTI_createManifestXML(itemIdentifiers, EmptyMap).dependencies = WrittenIdentifiers

\* a package was created from two entries of which the first failed: its only
\* reference is the second item
C21_Witness ==
  /\ pc = "returned" /\ exportInvoked /\ result = "success"
  /\ Len(combinedData) = 2
  /\ FailedEntries = {1}
  /\ combinedData[1].number # combinedData[2].number
  /\ Len(itemFiles) = 1
  /\ Len(QTI_createAssessmentXML(itemIdentifiers)) = 1
  /\ QTI_createAssessmentXML(itemIdentifiers)[1].identifier = combinedData[2].number

\* C22: QTI_createItemXML has a generator for every member of QUESTION_TYPES:
\* it never takes the unsupported-type branch, so when it returns null the null
\* comes from a generator (those of matching and ordering return null for an
\* entry they cannot render).
C22_EveryTypeHasAGenerator ==
  (Returned("QTI_createItemXML") /\ call.question.type \in QUESTION_TYPES) =>
    \/ call.ret.item.made
    \/ call.question.type \in {MATCHING, ORDERING}

\* the entry q with the tokens of its answer key in upper case: the letters of
\* an ordering sequence and the premises of matching pairs
UpperKeyed(q) ==
  [q EXCEPT !.correctAnswer =
     [q.correctAnswer EXCEPT
        !.list = [k \in 1..Len(q.correctAnswer.list) |-> ToUpperCase(q.correctAnswer.list[k])],
        !.pairs = [k \in 1..Len(q.correctAnswer.pairs) |->
                     [premise |-> ToUpperCase(q.correctAnswer.pairs[k].premise),
                      response |-> q.correctAnswer.pairs[k].response]]]]

\* C23: answer-key tokens are bound to option letters whatever their case: for
\* a matching or ordering entry the item generated from a key spelled with
\* lower-case tokens is the item generated from the same key in upper case,
\* with the same grading condition.
C23_TokensBoundWhateverTheCase ==
  (Returned("QTI_createItemXML") /\ call.question.type \in {MATCHING, ORDERING}) =>
    /\ call.ret.item.made = QTI_createItemXML(UpperKeyed(call.question)).item.made
    /\ call.ret.item.full = QTI_createItemXML(UpperKeyed(call.question)).item.full

\* C24: no backend call modifies an entry: after QTI_createItemXML returns, the
\* options, the correctAnswer, the type and the text of the entry are what they
\* were before the call, also for an entry without options or without answer.
C24_EntryUnchangedByGenerator ==
  Returned("QTI_createItemXML") =>
    /\ call.ret.q.options = call.question.options
    /\ call.ret.q.correctAnswer = call.question.correctAnswer
    /\ call.ret.q.type = call.question.type
    /\ call.ret.q.text = call.question.text

\* C25: once parseQuestions has pushed a draft, no later block changes its
\* number, stem, options or type: continuation text and options go to the
\* draft started last, which is not pushed yet.
C25_PushedDraftsAreFrozen ==
  [][pc = "parseQuestions" =>
       /\ Len(pq'.questions) >= Len(pq.questions)
       /\ \A k \in 1..Len(pq.questions) :
            /\ pq'.questions[k].number = pq.questions[k].number
            /\ pq'.questions[k].text = pq.questions[k].text
            /\ pq'.questions[k].options = pq.questions[k].options
            /\ pq'.questions[k].type = pq.questions[k].type]_vars

\* a draft without options has been pushed, and an option was read after it:
\* the option, and the type it brings, are in the current draft only
C25_Witness ==
  /\ pc = "parseQuestions"
  /\ Len(pq.questions) = 1
  /\ pq.questions[1].options = <<>>
  /\ pq.currentQuestion # <<>>
  /\ Len(pq.currentQuestion[1].options) = 1
  /\ pq.currentQuestion[1].type # pq.questions[1].type
  /\ pq.i = 3

\* the positions of the answers of question k of the returned quiz whose
\* fraction is 100
FullFractions(k) ==
  { i \in 1..Len(call.ret[k].fractions) : call.ret[k].fractions[i] = 100 }
\* the correct index of question k is the index of one of its options
ValidCorrectIndex(k) ==
  /\ call.qs[k].correctAnswerIndex # Undefined
  /\ call.qs[k].correctAnswerIndex >= 0
  /\ call.qs[k].correctAnswerIndex < Len(call.qs[k].options)

\* C26: in the document of Moodle_createQuizXML every question with at least
\* one option has exactly one answer of fraction 100 and its other answers have
\* fraction 0; the answer of fraction 100 is the option at the correct index,
\* or the first option when the entry has no valid correct index.
C26_OneAnswerHasFullFraction ==
  Returned("Moodle_createQuizXML") =>
    /\ Len(call.ret) = Len(call.qs)
    /\ \A k \in 1..Len(call.qs) :
         Len(call.qs[k].options) >= 1 =>
           /\ Len(call.ret[k].fractions) = Len(call.qs[k].options)
           /\ \A i \in 1..Len(call.ret[k].fractions) : call.ret[k].fractions[i] \in {0, 100}
           /\ FullFractions(k) =
                (IF ValidCorrectIndex(k) THEN {call.qs[k].correctAnswerIndex + 1} ELSE {1})

\* C27: over any sequence of conversions and downloads, a download fails while
\* no conversion has succeeded; otherwise it returns the package of the most
\* recent successful conversion; and a conversion that fails leaves the stored
\* reference (lastExportFileId, lastExportFileName) as it was.
C27_DownloadReturnsLastArtifact ==
  [][/\ download'.calls # download.calls =>
          IF driveFiles = <<>>
          THEN download'.status = "error"
          ELSE /\ download'.status = "ok"
               /\ download'.data = driveFiles[Len(driveFiles)].id
               /\ download'.filename = driveFiles[Len(driveFiles)].name
     /\ result' = "failure" => scriptProperties' = scriptProperties]_vars

\* the first and the second conversion succeeded and the third failed; a
\* download has returned the package of the second
C27_Witness ==
  /\ run = 3 /\ pc = "returned" /\ result = "failure"
  /\ Len(driveFiles) = 2
  /\ scriptProperties.lastExportFileId = 2
  /\ download.status = "ok"
  /\ download.data = 2
  /\ download.filename = 2

\* the elements of the sequence s are pairwise distinct
PairwiseDistinct(s) == \A i, j \in 1..Len(s) : i # j => s[i] # s[j]

\* C28: when the entries have pairwise distinct question numbers (0 included),
\* the item identifiers and the item file names that QTIExport_createQTIPackage
\* generates are pairwise distinct.
C28_DistinctNumbersGiveDistinctItems ==
  (/\ call.fn = "QTIExport_createQTIPackage" /\ call.done
   /\ PairwiseDistinct([k \in 1..Len(call.questionsData) |-> call.questionsData[k].number]))
  => /\ PairwiseDistinct(call.ret.itemIdentifiers)
     /\ PairwiseDistinct([k \in 1..Len(call.ret.files) |-> call.ret.files[k].itemNumber])

\* C29: every file name of an img element of a generated item is the name of
\* a resource file copied into the package and listed in the manifest, also
\* for an image whose copy failed or whose file was renamed.
C29_ImgReferencesAreInThePackage ==
  (call.fn = "QTI_processAndCopyImages" /\ call.done)
  => \A p \in 1..Len(call.ret.body) :
       call.ret.body[p].img
       => /\ call.ret.body[p].src \in Range(call.ret.files)
          /\ call.ret.body[p].src \in call.ret.manifest

\* C30: for a resources folder of n >= 0 files, Moodle_pushBlobs returns
\* normally and appends exactly n blobs, the k-th with the content of the k-th
\* file under the name resources/<name of the k-th file>: the result of
\* BB_pushBlobs on the same folder.
C30_MoodleBlobsAreTheFiles ==
  (call.fn = "Moodle_pushBlobs" /\ call.done)
  => /\ call.ret.status = "returned"
     /\ Len(call.ret.arr) = Len(call.folder)
     /\ \A k \in 1..Len(call.folder) :
          call.ret.arr[k] = Blob(call.folder[k].content, "resources", call.folder[k].name)
     /\ call.ret = BB_pushBlobs(<<>>, call.folder, "resources", 1)

====
